---- MODULE Spec2Model ----
(***************************************************************************)
(* The connection state machine of homebridge-smartika:                    *)
(* src/src/SmartikaHubConnection.js (class SmartikaHubConnection), driven  *)
(* by its caller src/src/SmartikaPlatform.js, the hub at the other end of  *)
(* the TCP socket and the Node.js event loop.                              *)
(*                                                                         *)
(* One action is one event-loop task: a public call, a socket event or a   *)
(* timer callback, together with every promise continuation (microtask)    *)
(* it triggers.  A handler is written as an operator from the state record *)
(* to the state record, so that a handler that calls another one (the      *)
(* reconnect timer calls connect(), which on success calls startPolling(), *)
(* which calls sendCommand()) is the composition the code performs.        *)
(***************************************************************************)
EXTENDS Integers, Sequences, FiniteSets, TLC

VARIABLES
    socket,           \* this.socket: NoSocket (null) or the current socket
    encryptionKey,    \* this.encryptionKey: NoKey (null) or the derived key
    connected,        \* this.connected
    reconnecting,     \* this.reconnecting
    pollingTimer,     \* this.pollingTimer is non-null
    pingTimer,        \* this.pingTimer is non-null
    reconnectTimer,   \* this.reconnectTimer: "null", "armed" or "fired" (a stale handle)
    pendingCommand,   \* this.pendingCommand: NoCmd (null) or the command in flight
    responseBuffer,   \* this.responseBuffer: the chunks received and not yet consumed
    socks,            \* every net.Socket the connection created: state, listeners, wire
    loop,             \* the armed 5000 ms timers in arming order, and close callbacks due
    cmdTimers,        \* the armed command-timeout timers (ids of their commands)
    outstanding,      \* the commands written whose promise is not settled
    pollArmed,        \* number of armed status-poll interval timers
    pingArmed,        \* number of armed keep-alive interval timers
    user,             \* the caller's connect(): "new", "connecting", "resolved", "rejected"
    disconnectCalled, \* disconnect() has been called
    emitted,          \* notifications emitted by the last task
    written,          \* socket.write calls made by the last task
    settled,          \* promises settled by the last task
    uncaught,         \* an exception escaped a callback: the process is gone
    grp,              \* a call of getGroupedDeviceIds(): its locals and its requests
    call              \* a call of a protocol or cipher function: arguments and result

vars == <<socket, encryptionKey, connected, reconnecting, pollingTimer, pingTimer,
          reconnectTimer, pendingCommand, responseBuffer, socks, loop, cmdTimers,
          outstanding, pollArmed, pingArmed, user, disconnectCalled, emitted,
          written, settled, uncaught, grp, call>>

(***************************************************************************)
(* Bounds of the model.                                                    *)
(***************************************************************************)
MaxSockets == 2      \* sockets alive at the same time (a dead one is reused)
MaxCmds == 2         \* commands whose promise or timer is alive at the same time
MaxBuf == 1          \* chunks the receive buffer holds while no command is pending
MaxUnanswered == 1   \* requests on one socket the hub has not answered yet
MaxListed == 2       \* group ids in the hub's answer to a group listing
MaxData == 2         \* payload bytes of a frame built from drawn bytes
MaxEdits == 2        \* bytes of a frame replaced before it is decoded
MaxIds == 2          \* device addresses in the list given to a request builder
MaxEntries == 2      \* whole entries in the data of a list response
MaxTail == 1         \* bytes of a cut-off entry after the whole ones
MaxLost == 1         \* bytes of a ciphertext that have not arrived when it is decrypted

Sockets == 1..MaxSockets
CmdIds == 1..MaxCmds
HubIds == {"hubA", "hubB"}
CmdKinds == {"user", "poll", "ping"}
NoSocket == 0
NoKey == <<>>
NoCmd == [id |-> 0, kind |-> "none", sock |-> 0]

\* crypto.generateKey(hubId): a deterministic function of the identifier.
generateKey(hubId) == <<"key", hubId>>

SockInit ==
    [state |-> "free",        \* "free", "connecting", "open", "closed"
     pre |-> FALSE,           \* connect()'s once('error') / once('timeout') listeners
     handlers |-> FALSE,      \* setupSocketHandlers' 'data' and 'close' listeners
     idle |-> FALSE,          \* setupSocketHandlers' 'timeout' listener
     hs |-> 0,                \* the handshake's once('data') handler: 0 or its attempt
     attempt |-> "none",      \* connect() on it: "none", "connecting", "handshake",
                              \*   "resolved", "rejected"
     caller |-> "none",       \* who awaits that connect(): "user" or "reconnect"
     hub |-> "none",          \* the identifier the hub answered with on this socket
     keyed |-> FALSE,         \* the key was derived from a response on this socket
     unanswered |-> <<>>,     \* requests written and not answered by the hub yet
     firstWrite |-> "none",   \* the first write: "none", "gw" (plaintext), "cmd"
     gwWrites |-> 0,          \* plaintext writes, counted to 2
     encEarly |-> FALSE]      \* an encrypted write was made before keyed

St ==
    [socket |-> socket, encryptionKey |-> encryptionKey, connected |-> connected,
     reconnecting |-> reconnecting, pollingTimer |-> pollingTimer,
     pingTimer |-> pingTimer, reconnectTimer |-> reconnectTimer,
     pendingCommand |-> pendingCommand, responseBuffer |-> responseBuffer,
     socks |-> socks, loop |-> loop, cmdTimers |-> cmdTimers,
     outstanding |-> outstanding, pollArmed |-> pollArmed, pingArmed |-> pingArmed,
     user |-> user, disconnectCalled |-> disconnectCalled,
     emitted |-> <<>>, written |-> <<>>, settled |-> <<>>, uncaught |-> uncaught]

(***************************************************************************)
(* getGroupedDeviceIds: the hub's groups and the locals of one call.       *)
(***************************************************************************)
GroupIds == {"g1", "g2"}
DeviceIds == {"d1", "d2"}
Memberships == [GroupIds -> SUBSET DeviceIds]
GroupLists == UNION {[1..n -> GroupIds] : n \in 0..MaxListed}

\* Before the call: members is what the hub answers to a group read.
grpIdle(members) ==
    [pc |-> "idle", members |-> members, groupIds |-> <<>>, i |-> 0,
     groupedDevices |-> {}, sent |-> <<>>, awaiting |-> 0, read |-> {},
     listed |-> "no", returned |-> FALSE]

\* await this.listGroups() / await this.readGroup(groupId): one request is
\* issued and the procedure is suspended until its promise settles.
request(g, pc, r) ==
    [g EXCEPT !.pc = pc, !.sent = Append(@, r), !.awaiting = @ + 1]

\* return groupedDevices
returnGroupedDevices(g) == [g EXCEPT !.pc = "done", !.returned = TRUE]

\* for (const groupId of groupIds): the next group is read, or the loop ends.
nextGroup(g) ==
    IF g.i < Len(g.groupIds)
    THEN request([g EXCEPT !.i = @ + 1], "reading",
                 [op |-> "readGroup", groupId |-> g.groupIds[g.i + 1]])
    ELSE returnGroupedDevices(g)

\* const groupedDevices = new Set(); ... await this.listGroups()
getGroupedDeviceIds(g) ==
    request([g EXCEPT !.groupedDevices = {}], "listing",
            [op |-> "listGroups", groupId |-> "none"])

\* listGroups() resolved with { groupIds }.
listGroupsResolved(g, groupIds) ==
    nextGroup([g EXCEPT !.awaiting = @ - 1, !.groupIds = groupIds, !.listed = "ok"])

\* listGroups() rejected: the outer catch warns, and the set is returned.
listGroupsRejected(g) ==
    returnGroupedDevices([g EXCEPT !.awaiting = @ - 1, !.listed = "failed"])

\* readGroup() resolved with { deviceIds }: each id is added to the set.
readGroupResolved(g, deviceIds) ==
    nextGroup([g EXCEPT !.awaiting = @ - 1,
                        !.groupedDevices = @ \cup deviceIds,
                        !.read = @ \cup {g.groupIds[g.i]}])

readGroupRejectedAborts(g) ==
    returnGroupedDevices([g EXCEPT !.awaiting = @ - 1])

\* readGroup() rejected: the inner catch warns, and the loop goes on.
readGroupRejected(g) ==
    nextGroup([g EXCEPT !.awaiting = @ - 1])

Constructed ==
    /\ socket = NoSocket
    /\ encryptionKey = NoKey
    /\ connected = FALSE
    /\ reconnecting = FALSE
    /\ pollingTimer = FALSE
    /\ pingTimer = FALSE
    /\ reconnectTimer = "null"
    /\ pendingCommand = NoCmd
    /\ responseBuffer = <<>>
    /\ socks = [s \in Sockets |-> SockInit]
    /\ loop = <<>>
    /\ cmdTimers = {}
    /\ outstanding = {}
    /\ pollArmed = 0
    /\ pingArmed = 0
    /\ user = "new"
    /\ disconnectCalled = FALSE
    /\ emitted = <<>>
    /\ written = <<>>
    /\ settled = <<>>
    /\ uncaught = FALSE

\* No protocol or cipher function is being called.
NoCall == [op |-> "none", stage |-> "none"]

Init == Constructed /\ grp = grpIdle([g \in GroupIds |-> {}]) /\ call = NoCall

(***************************************************************************)
(* Helpers: the per-task logs, timers, the sockets.                        *)
(***************************************************************************)
emit(c, ev) == [c EXCEPT !.emitted = Append(@, ev)]

note(c, what, who, how) ==
    [c EXCEPT !.settled = Append(@, [what |-> what, who |-> who, how |-> how])]

Min(a, b) == IF a < b THEN a ELSE b

\* The positions of the reconnect timers in the loop.
RcPositions(q) == {i \in 1..Len(q) : q[i].t = "rc"}

RemoveAt(q, i) == SubSeq(q, 1, i - 1) \o SubSeq(q, i + 1, Len(q))

\* clearTimeout(this.reconnectTimer): the handle is that of the timer armed
\* last, the last reconnect timer of the loop.
clearReconnectTimer(q) ==
    IF RcPositions(q) = {} THEN q
    ELSE RemoveAt(q, CHOOSE i \in RcPositions(q) : \A j \in RcPositions(q) : j <= i)

UsedIds(c) ==
    {x.id : x \in c.outstanding} \cup c.cmdTimers \cup {c.pendingCommand.id}

HasFreshId(c) == CmdIds \ UsedIds(c) # {}

FreshId(c) ==
    CHOOSE i \in CmdIds \ UsedIds(c) : \A j \in CmdIds \ UsedIds(c) : i <= j

\* A socket nothing refers to any more: its slot stands for the next new net.Socket().
Garbage(c, s) ==
    \/ c.socks[s].state = "free"
    \/ /\ c.socks[s].state = "closed"
       /\ c.socket # s
       /\ \A i \in 1..Len(c.loop) : c.loop[i].s # s
       /\ \A x \in Sockets : c.socks[x].state # "closed" => c.socks[x].hs # s
       /\ c.pendingCommand.sock # s
       /\ \A x \in c.outstanding : x.sock # s

HasNewSocket(c) == \E s \in Sockets : Garbage(c, s)

NewSocket(c) ==
    CHOOSE s \in Sockets : Garbage(c, s) /\ \A x \in Sockets : Garbage(c, x) => s <= x

\* No request on any socket is the pending command's any longer.
retire(c) ==
    [c EXCEPT !.socks = [s \in Sockets |->
        [c.socks[s] EXCEPT !.unanswered =
            [i \in 1..Len(@) |-> [@[i] EXCEPT !.cur = FALSE]]]]]

\* socket.write(bytes) on socket s: "gw" is the plaintext gateway-identifier
\* request, "cmd" an encrypted command.
write(c, s, kind) ==
    LET r == IF kind = "cmd" THEN retire(c) ELSE c
        k == r.socks[s]
    IN  [r EXCEPT
            !.written = Append(@, [sock |-> s, kind |-> kind]),
            !.socks[s] = [k EXCEPT
                !.firstWrite = IF @ = "none" THEN kind ELSE @,
                !.gwWrites = IF kind = "gw" THEN Min(@ + 1, 2) ELSE @,
                !.encEarly = @ \/ (kind = "cmd" /\ ~k.keyed),
                !.unanswered =
                    IF k.state \in {"connecting", "open"} /\ Len(@) < MaxUnanswered
                    THEN Append(@, [kind |-> kind, cur |-> (kind = "cmd")])
                    ELSE @]]

\* socket.destroy(): the socket is dead at once, its 'close' event is emitted by
\* the event loop before any timer armed from now on can fire.
destroy(c, s) ==
    IF c.socks[s].state \in {"connecting", "open"}
    THEN [c EXCEPT !.socks[s].state = "closed",
                   !.socks[s].unanswered = <<>>,
                   !.loop = Append(@, [t |-> "close", s |-> s])]
    ELSE c

(***************************************************************************)
(* crypto.decrypt of the accumulated buffer, and what the caller's decoder *)
(* makes of it.  A plaintext or garbled chunk makes the length no multiple *)
(* of the block size, and the decipher throws; a buffer of whole blocks is *)
(* decrypted without any check, and cut to the length its first frame      *)
(* names.                                                                  *)
(***************************************************************************)
decrypt(buf, key) ==
    IF key = NoKey \/ \E i \in 1..Len(buf) : buf[i].type = "gw" \/ buf[i].body = "garbled"
    THEN "DecryptError"
    ELSE IF generateKey(buf[1].hub) # key \/ buf[1].body = "malformed"
    THEN "DecodeError"
    ELSE IF buf[1].body = "unexpected"
    THEN "UnexpectedCommand"
    ELSE IF buf[1].fresh THEN "resolved" ELSE "resolvedStale"

(***************************************************************************)
(* The methods of SmartikaHubConnection.                                   *)
(***************************************************************************)

\* sendCommand without the pending check of lines 197-200.
sendCommandNoBusyCheck(c, kind) ==
    IF ~c.connected \/ c.encryptionKey = NoKey
    THEN note(c, "cmd", kind, "NotConnected")
    ELSE LET cmd == [id |-> FreshId(c), kind |-> kind, sock |-> c.socket]
         IN  write([c EXCEPT !.cmdTimers = @ \cup {cmd.id},
                             !.pendingCommand = cmd,
                             !.responseBuffer = <<>>,
                             !.outstanding = @ \cup {cmd}], c.socket, "cmd")

\* sendCommand whose busy rejection also empties the pending slot.
sendCommandBusyDropsPending(c, kind) ==
    IF ~c.connected \/ c.encryptionKey = NoKey
    THEN note(c, "cmd", kind, "NotConnected")
    ELSE IF c.pendingCommand # NoCmd
    THEN note([c EXCEPT !.pendingCommand = NoCmd], "cmd", kind, "CommandBusy")
    ELSE LET cmd == [id |-> FreshId(c), kind |-> kind, sock |-> c.socket]
         IN  write([c EXCEPT !.cmdTimers = @ \cup {cmd.id},
                             !.pendingCommand = cmd,
                             !.responseBuffer = <<>>,
                             !.outstanding = @ \cup {cmd}], c.socket, "cmd")

\* sendCommand with its two checks in the other order.
sendCommandBusyFirst(c, kind) ==
    IF c.pendingCommand # NoCmd
    THEN note(c, "cmd", kind, "CommandBusy")
    ELSE IF ~c.connected \/ c.encryptionKey = NoKey
    THEN note(c, "cmd", kind, "NotConnected")
    ELSE LET cmd == [id |-> FreshId(c), kind |-> kind, sock |-> c.socket]
         IN  write([c EXCEPT !.cmdTimers = @ \cup {cmd.id},
                             !.pendingCommand = cmd,
                             !.responseBuffer = <<>>,
                             !.outstanding = @ \cup {cmd}], c.socket, "cmd")

\* sendCommand that takes a derived key alone for readiness.
sendCommandKeyOnly(c, kind) ==
    IF c.encryptionKey = NoKey \/ c.socket = NoSocket
    THEN note(c, "cmd", kind, "NotConnected")
    ELSE IF c.pendingCommand # NoCmd
    THEN note(c, "cmd", kind, "CommandBusy")
    ELSE LET cmd == [id |-> FreshId(c), kind |-> kind, sock |-> c.socket]
         IN  write([c EXCEPT !.cmdTimers = @ \cup {cmd.id},
                             !.pendingCommand = cmd,
                             !.responseBuffer = <<>>,
                             !.outstanding = @ \cup {cmd}], c.socket, "cmd")

\* sendCommand that keeps what the receive buffer holds.
sendCommandKeepsBuffer(c, kind) ==
    IF ~c.connected \/ c.encryptionKey = NoKey
    THEN note(c, "cmd", kind, "NotConnected")
    ELSE IF c.pendingCommand # NoCmd
    THEN note(c, "cmd", kind, "CommandBusy")
    ELSE LET cmd == [id |-> FreshId(c), kind |-> kind, sock |-> c.socket]
         IN  write([c EXCEPT !.cmdTimers = @ \cup {cmd.id},
                             !.pendingCommand = cmd,
                             !.outstanding = @ \cup {cmd}], c.socket, "cmd")

\* sendCommand(request, timeoutMs), for a caller of the given kind.
sendCommand(c, kind) ==
    IF ~c.connected \/ c.encryptionKey = NoKey
    THEN note(c, "cmd", kind, "NotConnected")
    ELSE IF c.pendingCommand # NoCmd
    THEN note(c, "cmd", kind, "CommandBusy")
    ELSE LET cmd == [id |-> FreshId(c), kind |-> kind, sock |-> c.socket]
             armed == [c EXCEPT !.cmdTimers = @ \cup {cmd.id},
                                !.pendingCommand = cmd,
                                !.responseBuffer = <<>>]
         IN  IF c.socket = NoSocket
             THEN note(armed, "cmd", kind, "TypeError")  \* null.write throws in the executor
             ELSE write([armed EXCEPT !.outstanding = @ \cup {cmd}], c.socket, "cmd")

\* A poll that announces a device list whatever the outcome of its request.
deliveredEmitsAlways(c, cmd, how) ==
    LET n == note([c EXCEPT !.outstanding = @ \ {cmd}], "cmd", cmd.kind, how)
    IN  IF cmd.kind = "poll" THEN emit(n, "deviceStatusUpdate") ELSE n

\* What the caller of a settled command does with the outcome: the poll emits
\* the decoded list, every other caller only sees the outcome.
delivered(c, cmd, how) ==
    LET n == note([c EXCEPT !.outstanding = @ \ {cmd}], "cmd", cmd.kind, how)
    IN  IF cmd.kind = "poll" /\ how \in {"resolved", "resolvedStale"}
        THEN emit(n, "deviceStatusUpdate")
        ELSE n

\* Buffer.concat([this.responseBuffer, data]) while nothing consumes the buffer:
\* the model keeps its first MaxBuf chunks.
keep(buf) == IF Len(buf) <= MaxBuf THEN buf ELSE SubSeq(buf, 1, MaxBuf)

\* handleData without clearTimeout(timeout).
handleDataKeepsTimer(c, chunk) ==
    LET buf == Append(c.responseBuffer, chunk)
    IN  IF c.pendingCommand # NoCmd /\ Len(buf) > 0
        THEN LET cmd == c.pendingCommand
                 how == decrypt(buf, c.encryptionKey)
                 done == retire([c EXCEPT !.pendingCommand = NoCmd,
                                          !.responseBuffer = <<>>])
             IN  IF cmd \in c.outstanding THEN delivered(done, cmd, how) ELSE done
        ELSE [c EXCEPT !.responseBuffer = keep(buf)]

\* handleData(data)
handleData(c, chunk) ==
    LET buf == Append(c.responseBuffer, chunk)
    IN  IF c.pendingCommand # NoCmd /\ Len(buf) > 0
        THEN LET cmd == c.pendingCommand
                 how == decrypt(buf, c.encryptionKey)
                 done == retire([c EXCEPT !.cmdTimers = @ \ {cmd.id},
                                          !.pendingCommand = NoCmd,
                                          !.responseBuffer = <<>>])
             IN  IF cmd \in c.outstanding THEN delivered(done, cmd, how) ELSE done
        ELSE [c EXCEPT !.responseBuffer = keep(buf)]

\* The timeout callback without this.pendingCommand = null.
commandTimeoutKeepsPending(c, id) ==
    LET done == retire([c EXCEPT !.cmdTimers = @ \ {id},
                                 !.responseBuffer = <<>>])
        mine == {x \in c.outstanding : x.id = id}
    IN  IF mine = {} THEN done
        ELSE delivered(done, CHOOSE x \in mine : TRUE, "CommandTimeout")

\* A timeout callback that gives the connection up.
commandTimeoutDisconnects(c, id) ==
    LET done == retire([c EXCEPT !.cmdTimers = @ \ {id},
                                 !.pendingCommand = NoCmd,
                                 !.responseBuffer = <<>>,
                                 !.connected = FALSE])
        mine == {x \in c.outstanding : x.id = id}
    IN  IF mine = {} THEN done
        ELSE delivered(done, CHOOSE x \in mine : TRUE, "CommandTimeout")

\* The callback of the command's timeout timer.
commandTimeout(c, id) ==
    LET done == retire([c EXCEPT !.cmdTimers = @ \ {id},
                                 !.pendingCommand = NoCmd,
                                 !.responseBuffer = <<>>])
        mine == {x \in c.outstanding : x.id = id}
    IN  IF mine = {} THEN done
        ELSE delivered(done, CHOOSE x \in mine : TRUE, "CommandTimeout")

\* The request of a status poll: protocol.createDeviceStatusRequest(deviceIds)
\* writes each id as a big-endian 16-bit word and passes the number of ids as
\* listLen; getDeviceStatus() called without arguments, as pollDeviceStatus
\* calls it, takes the broadcast address alone.
DEVICE_ID_BROADCAST == 65535
CMD_DEVICE_STATUS == 2

createDeviceStatusRequest(deviceIds) ==
    [cmdId |-> CMD_DEVICE_STATUS,
     listLen |-> Len(deviceIds),
     data |-> [i \in 1..(2 * Len(deviceIds)) |->
                  IF i % 2 = 1 THEN deviceIds[(i + 1) \div 2] \div 256
                  ELSE deviceIds[i \div 2] % 256]]

\* The default of getDeviceStatus's parameter.
getDeviceStatusDefault == <<DEVICE_ID_BROADCAST>>

pollRequest == createDeviceStatusRequest(getDeviceStatusDefault)

\* pollDeviceStatus() that stops polling when its request is refused.
pollDeviceStatusStopsOnFailure(c) ==
    LET r == sendCommand(c, "poll")
    IN  IF Len(r.settled) > Len(c.settled)
        THEN [r EXCEPT !.pollArmed = IF r.pollingTimer THEN @ - 1 ELSE @,
                       !.pollingTimer = FALSE]
        ELSE r

\* pollDeviceStatus(): getDeviceStatus() with every failure swallowed.
pollDeviceStatus(c) == sendCommand(c, "poll")

\* ping(), as the timers call it: ping().catch(() => {}).
ping(c) == sendCommand(c, "ping")

\* startPolling without its check of this.pollingTimer.
startPollingUnguarded(c) ==
    [pollDeviceStatus(c) EXCEPT !.pollingTimer = TRUE,
                                !.pollArmed = Min(@ + 1, 2),
                                !.pingTimer = TRUE,
                                !.pingArmed = Min(@ + 1, 2)]

\* startPolling()
startPolling(c) ==
    IF c.pollingTimer THEN c
    ELSE [pollDeviceStatus(c) EXCEPT !.pollingTimer = TRUE,
                                     !.pollArmed = Min(@ + 1, 2),
                                     !.pingTimer = TRUE,
                                     !.pingArmed = Min(@ + 1, 2)]

\* stopPolling()
stopPolling(c) ==
    [c EXCEPT !.pollArmed = IF c.pollingTimer THEN @ - 1 ELSE @,
              !.pollingTimer = FALSE,
              !.pingArmed = IF c.pingTimer THEN @ - 1 ELSE @,
              !.pingTimer = FALSE]

\* scheduleReconnect without its re-entrancy check.
scheduleReconnectUnguarded(c) ==
    [c EXCEPT !.reconnecting = TRUE,
              !.reconnectTimer = "armed",
              !.loop = Append(@, [t |-> "rc", s |-> NoSocket])]

\* scheduleReconnect()
scheduleReconnect(c) ==
    IF c.reconnecting THEN c
    ELSE [c EXCEPT !.reconnecting = TRUE,
                   !.reconnectTimer = "armed",
                   !.loop = Append(@, [t |-> "rc", s |-> NoSocket])]

\* disconnect() that leaves the reconnect timer armed.
disconnectKeepsReconnect(c) ==
    LET a == stopPolling(c)
        d == [a EXCEPT !.pingArmed = IF a.pingTimer THEN @ - 1 ELSE @,
                       !.pingTimer = FALSE]
        e == IF d.socket # NoSocket
             THEN [destroy(d, d.socket) EXCEPT !.socket = NoSocket]
             ELSE d
    IN  [e EXCEPT !.connected = FALSE, !.encryptionKey = NoKey]

\* disconnect()
disconnect(c) ==
    LET a == stopPolling(c)
        b == [a EXCEPT !.loop = IF a.reconnectTimer = "armed"
                                THEN clearReconnectTimer(@) ELSE @,
                       !.reconnectTimer = "null"]
        d == [b EXCEPT !.pingArmed = IF b.pingTimer THEN @ - 1 ELSE @,
                       !.pingTimer = FALSE]
        e == IF d.socket # NoSocket
             THEN [destroy(d, d.socket) EXCEPT !.socket = NoSocket]
             ELSE d
    IN  [e EXCEPT !.connected = FALSE, !.encryptionKey = NoKey]

\* The continuation of whoever awaits connect() when the promise resolves: the
\* platform's initializeHub, or the reconnect timer's callback (startPolling).
connectResolved(c, caller) ==
    LET n == note(c, "connect", caller, "resolved")
    IN  IF caller = "reconnect" THEN startPolling(n)
        ELSE [n EXCEPT !.user = "resolved"]

\* A reconnect timer whose catch gives up instead of re-scheduling.
connectRejectedGivesUp(c, caller) ==
    LET n == note(c, "connect", caller, "rejected")
    IN  IF caller = "reconnect"
        THEN [n EXCEPT !.reconnecting = FALSE]
        ELSE [n EXCEPT !.user = "rejected"]

\* ... and when it rejects: the reconnect timer's catch re-schedules.
connectRejected(c, caller) ==
    LET n == note(c, "connect", caller, "rejected")
    IN  IF caller = "reconnect"
        THEN scheduleReconnect([n EXCEPT !.reconnecting = FALSE])
        ELSE [n EXCEPT !.user = "rejected"]

\* connect(): up to socket.connect(...).
connect(c, caller) ==
    IF c.connected THEN connectResolved(c, caller)
    ELSE LET s == NewSocket(c)
         IN  [c EXCEPT !.socket = s,
                       !.socks[s] = [SockInit EXCEPT !.state = "connecting",
                                                     !.pre = TRUE,
                                                     !.attempt = "connecting",
                                                     !.caller = caller]]

\* cleanup(), a closure of connect(): it names this.socket.
cleanup(c) ==
    [c EXCEPT !.socks[c.socket].pre = FALSE, !.socks[c.socket].idle = FALSE]

\* setupSocketHandlers()
setupSocketHandlers(c) ==
    [c EXCEPT !.socks[c.socket].handlers = TRUE, !.socks[c.socket].idle = TRUE]

\* initializeEncryption(), for the connect() attempt a: the once('data')
\* handler, the plaintext request, the 5000 ms timer.
initializeEncryption(c, a) ==
    LET w == write([c EXCEPT !.socks[c.socket].hs = a], c.socket, "gw")
    IN  [w EXCEPT !.loop = Append(@, [t |-> "hs", s |-> a])]

\* The handshake promise of attempt a resolves: the rest of connect()'s callback.
handshakeResolved(c, a) ==
    IF c.socks[a].attempt # "handshake" THEN c
    ELSE connectResolved(
            emit([c EXCEPT !.connected = TRUE,
                           !.reconnecting = FALSE,
                           !.socks[a].attempt = "resolved"], "connected"),
            c.socks[a].caller)

\* The handshake promise of attempt a rejects: the catch of connect()'s callback.
handshakeRejected(c, a) ==
    IF c.socks[a].attempt # "handshake" THEN c
    ELSE IF c.socket = NoSocket THEN [c EXCEPT !.uncaught = TRUE]
    ELSE connectRejected([destroy(c, c.socket) EXCEPT !.socks[a].attempt = "rejected"],
                         c.socks[a].caller)

\* The callback of socket.connect announcing Ready before the handshake.
onConnectReadyEarly(c, s) ==
    LET o == [c EXCEPT !.socks[s].state = "open", !.connected = TRUE]
    IN  IF o.socket = NoSocket THEN [o EXCEPT !.uncaught = TRUE]
        ELSE [initializeEncryption(setupSocketHandlers(cleanup(o)), s)
                 EXCEPT !.socks[s].attempt = "handshake"]

\* The callback of socket.connect on socket s.
onConnect(c, s) ==
    LET o == [c EXCEPT !.socks[s].state = "open"]
    IN  IF o.socket = NoSocket THEN [o EXCEPT !.uncaught = TRUE]
        ELSE [initializeEncryption(setupSocketHandlers(cleanup(o)), s)
                 EXCEPT !.socks[s].attempt = "handshake"]

\* connect()'s once('error') listener on socket s (the socket is dead by then).
onConnectError(c, s) ==
    LET o == destroy(c, s)
    IN  IF ~o.socks[s].pre \/ o.socket = NoSocket THEN [o EXCEPT !.uncaught = TRUE]
        ELSE connectRejected([cleanup(o) EXCEPT !.socks[s].attempt = "rejected"],
                             o.socks[s].caller)

\* connect()'s once('timeout') listener on socket s.
onConnectTimeout(c, s) ==
    IF c.socket = NoSocket THEN [c EXCEPT !.uncaught = TRUE]
    ELSE LET d == destroy(cleanup(c), c.socket)
         IN  connectRejected([d EXCEPT !.socks[s].attempt = "rejected"],
                             c.socks[s].caller)

\* 'data' listeners whose handshake handler keeps a key it already has.
onDataKeepsKey(c, s, chunk) ==
    LET h == IF c.socks[s].handlers THEN handleData(c, chunk) ELSE c
        a == h.socks[s].hs
        once == [h EXCEPT !.socks[s].hs = 0]
    IN  IF a = 0 THEN h
        ELSE IF chunk.type = "gw" /\ chunk.body = "ok"
        THEN handshakeResolved([once EXCEPT !.encryptionKey =
                                                IF @ = NoKey THEN generateKey(chunk.hub)
                                                ELSE @,
                                            !.socks[s].keyed = TRUE], a)
        ELSE handshakeRejected(once, a)

\* The 'data' listeners of socket s, in the order they were added: handleData,
\* then the handshake's once('data') handler.
onData(c, s, chunk) ==
    LET h == IF c.socks[s].handlers THEN handleData(c, chunk) ELSE c
        a == h.socks[s].hs
        once == [h EXCEPT !.socks[s].hs = 0]
    IN  IF a = 0 THEN h
        ELSE IF chunk.type = "gw" /\ chunk.body = "ok"
        THEN handshakeResolved([once EXCEPT !.encryptionKey = generateKey(chunk.hub),
                                            !.socks[s].keyed = TRUE], a)
        ELSE handshakeRejected(once, a)

\* A 'close' listener that schedules no reconnect.
onCloseNoReconnect(c, s) ==
    IF c.socks[s].handlers
    THEN emit([c EXCEPT !.connected = FALSE], "disconnected")
    ELSE c

\* The 'close' listener of socket s.
onClose(c, s) ==
    IF c.socks[s].handlers
    THEN scheduleReconnect(emit([c EXCEPT !.connected = FALSE], "disconnected"))
    ELSE c

\* The callback of the handshake timer of attempt a.
onHandshakeTimer(c, a) ==
    IF c.socket = NoSocket THEN [c EXCEPT !.uncaught = TRUE]
    ELSE handshakeRejected(
            [c EXCEPT !.socks[c.socket].hs = IF @ = a THEN 0 ELSE @], a)

\* The callback of the reconnect timer.
onReconnectTimer(c) == connect(c, "reconnect")

\* The next state is the handler's result, with the sockets nothing refers to
\* any more released (Garbage, below).
release(c) ==
    [c EXCEPT !.socks = [s \in Sockets |-> IF Garbage(c, s) THEN SockInit ELSE @[s]],
              !.responseBuffer =
                  [i \in 1..Len(@) |->
                      IF @[i].sock # NoSocket /\ Garbage(c, @[i].sock)
                      THEN [@[i] EXCEPT !.sock = NoSocket]
                      ELSE @[i]]]

Apply(m) ==
    \E n \in {release(m)} :
    /\ socket' = n.socket
    /\ encryptionKey' = n.encryptionKey
    /\ connected' = n.connected
    /\ reconnecting' = n.reconnecting
    /\ pollingTimer' = n.pollingTimer
    /\ pingTimer' = n.pingTimer
    /\ reconnectTimer' = n.reconnectTimer
    /\ pendingCommand' = n.pendingCommand
    /\ responseBuffer' = n.responseBuffer
    /\ socks' = n.socks
    /\ loop' = n.loop
    /\ cmdTimers' = n.cmdTimers
    /\ outstanding' = n.outstanding
    /\ pollArmed' = n.pollArmed
    /\ pingArmed' = n.pingArmed
    /\ user' = n.user
    /\ disconnectCalled' = n.disconnectCalled
    /\ emitted' = n.emitted
    /\ written' = n.written
    /\ settled' = n.settled
    /\ uncaught' = n.uncaught
    /\ grp' = grp
    /\ call' = call

(***************************************************************************)
(* The tasks of the event loop.  Nothing runs once an exception escaped;   *)
(* HasFreshId and HasNewSocket keep the model within its bounds.           *)
(***************************************************************************)
Live == ~uncaught /\ HasFreshId(St)

\* SmartikaPlatform.initializeHub: await this.hub.connect(), once.
UserConnect ==
    /\ Live
    /\ user = "new"
    /\ Apply(connect([St EXCEPT !.user = "connecting"], "user"))

\* SmartikaPlatform's shutdown handler: this.hub.disconnect().
UserDisconnect ==
    /\ Live
    /\ user # "new"
    /\ Apply([disconnect(St) EXCEPT !.disconnectCalled = TRUE])

\* SmartikaPlatform.initializeHub, after connect() resolved: startPolling().
UserStartPolling ==
    /\ Live
    /\ user = "resolved"
    /\ Apply(startPolling(St))

UserStopPolling ==
    /\ Live
    /\ user = "resolved"
    /\ Apply(stopPolling(St))

\* Any public command of the connection, called by the platform or an accessory.
UserCommand ==
    /\ Live
    /\ Apply(sendCommand(St, "user"))

\* The TCP connection of socket s is established.
ConnectOk(s) ==
    /\ Live
    /\ socks[s].state = "connecting"
    /\ Apply(onConnect(St, s))

\* The TCP connection of socket s is refused or fails.
ConnectError(s) ==
    /\ Live
    /\ socks[s].state = "connecting"
    /\ Apply(onConnectError(St, s))

\* socket.setTimeout(30000) expires before the connection is established.
ConnectTimeout(s) ==
    /\ Live
    /\ socks[s].state = "connecting"
    /\ socks[s].pre
    /\ Apply(onConnectTimeout(St, s))

\* The hub answers the gateway-identifier request on socket s, well or badly.
HubAnswersHandshake(s) ==
    /\ Live
    /\ socks[s].state = "open"
    /\ socks[s].unanswered # <<>>
    /\ Head(socks[s].unanswered).kind = "gw"
    /\ \E h \in HubIds, body \in {"ok", "bad"} :
          Apply(onData([St EXCEPT !.socks[s].unanswered = Tail(@),
                                  !.socks[s].hub = h],
                       s,
                       [sock |-> s, type |-> "gw", body |-> body, hub |-> h,
                        fresh |-> FALSE]))

\* The hub answers the oldest command on socket s: a good response, a frame the
\* decoder rejects, a well-formed frame of another command, or bytes the
\* decipher rejects.
HubAnswersCommand(s) ==
    /\ Live
    /\ socks[s].state = "open"
    /\ socks[s].unanswered # <<>>
    /\ Head(socks[s].unanswered).kind = "cmd"
    /\ \E body \in {"ok", "malformed", "unexpected", "garbled"} :
          Apply(onData([St EXCEPT !.socks[s].unanswered = Tail(@)],
                       s,
                       [sock |-> s, type |-> "enc", body |-> body,
                        hub |-> socks[s].hub,
                        fresh |-> Head(socks[s].unanswered).cur]))

\* The hub never answers the oldest request on socket s.
HubIgnores(s) ==
    /\ Live
    /\ socks[s].state = "open"
    /\ socks[s].unanswered # <<>>
    /\ Apply([St EXCEPT !.socks[s].unanswered = Tail(@)])

\* The hub or the network closes socket s: its 'close' event.
HubCloses(s) ==
    /\ Live
    /\ socks[s].state = "open"
    /\ Apply(onClose([St EXCEPT !.socks[s].state = "closed",
                                !.socks[s].unanswered = <<>>], s))

\* The 'close' event of a socket the connection destroyed itself.
CloseEvent(s) ==
    /\ Live
    /\ \E i \in 1..Len(loop) :
          /\ loop[i] = [t |-> "close", s |-> s]
          /\ Apply(onClose([St EXCEPT !.loop = RemoveAt(@, i)], s))

\* The oldest 5000 ms timer is a handshake timer, and fires.
HandshakeTimerFires ==
    /\ Live
    /\ loop # <<>>
    /\ Head(loop).t = "hs"
    /\ Apply(onHandshakeTimer([St EXCEPT !.loop = Tail(@)], Head(loop).s))

\* The oldest 5000 ms timer is a reconnect timer, and fires.
ReconnectTimerFires ==
    /\ Live
    /\ loop # <<>>
    /\ Head(loop).t = "rc"
    /\ LET c == [St EXCEPT !.loop = Tail(@),
                           !.reconnectTimer =
                               IF @ = "armed" /\ RcPositions(Tail(loop)) = {}
                               THEN "fired" ELSE @]
       IN  /\ connected \/ HasNewSocket(c)
           /\ Apply(onReconnectTimer(c))

\* The timeout timer of command id fires.
CommandTimerFires(id) ==
    /\ Live
    /\ id \in cmdTimers
    /\ Apply(commandTimeout(St, id))

\* A tick of a status-poll interval timer.
PollTick ==
    /\ Live
    /\ pollArmed > 0
    /\ Apply(pollDeviceStatus(St))

\* A tick of a keep-alive interval timer.
PingTick ==
    /\ Live
    /\ pingArmed > 0
    /\ Apply(ping(St))

\* The 'timeout' event of an idle established socket.
SocketIdleTimeout(s) ==
    /\ Live
    /\ socks[s].state = "open"
    /\ socks[s].idle
    /\ Apply(ping(St))

Next ==
    \/ UserConnect
    \/ UserDisconnect
    \/ UserStartPolling
    \/ UserStopPolling
    \/ UserCommand
    \/ \E s \in Sockets : ConnectOk(s)
    \/ \E s \in Sockets : ConnectError(s)
    \/ \E s \in Sockets : ConnectTimeout(s)
    \/ \E s \in Sockets : HubAnswersHandshake(s)
    \/ \E s \in Sockets : HubAnswersCommand(s)
    \/ \E s \in Sockets : HubIgnores(s)
    \/ \E s \in Sockets : HubCloses(s)
    \/ \E s \in Sockets : CloseEvent(s)
    \/ HandshakeTimerFires
    \/ ReconnectTimerFires
    \/ \E id \in CmdIds : CommandTimerFires(id)
    \/ PollTick
    \/ PingTick
    \/ \E s \in Sockets : SocketIdleTimeout(s)

Spec == Init /\ [][Next]_vars

\* A step of the event loop or of the network that is due: a 5000 ms timer or a
\* command timer fires, a pending 'close' event is delivered, a connection
\* attempt ends (established, refused, or cut by the 30000 ms socket timeout),
\* a handshake request is answered.
Progress ==
    \/ HandshakeTimerFires
    \/ ReconnectTimerFires
    \/ \E id \in CmdIds : CommandTimerFires(id)
    \/ \E s \in Sockets :
          \/ CloseEvent(s)
          \/ ConnectOk(s) \/ ConnectError(s) \/ ConnectTimeout(s)
          \/ HubAnswersHandshake(s)

\* What is due happens: the event loop does not stop while it has work.
Fairness == WF_vars(Progress)

SpecLive == Spec /\ Fairness

\* The timeout timer of a command fires when it is due, as long as the
\* process runs.
SpecTimers == Spec /\ \A id \in CmdIds : WF_vars(CommandTimerFires(id))

(***************************************************************************)
(* Properties of the command pipeline.                                     *)
(***************************************************************************)
Ready == connected /\ encryptionKey # NoKey

\* A task that is exactly one sendCommand call: a public command, a poll tick,
\* a keep-alive tick or the idle-timeout ping.
SendTask ==
    \/ UserCommand
    \/ PollTick
    \/ PingTick
    \/ \E s \in Sockets : SocketIdleTimeout(s)

Rejected(how) ==
    /\ Len(settled) = 1
    /\ settled[1].what = "cmd"
    /\ settled[1].how = how

\* C1: at most one request is outstanding: the commands written to a socket
\* that have neither been answered nor timed out are never more than one,
\* whatever the interleaving of user commands, polls and pings.
C1_OneOutstanding == Cardinality(outstanding) <= 1

\* A command is outstanding and a second one has just been refused.
C1_Witness == Cardinality(outstanding) = 1 /\ Rejected("CommandBusy")

\* C2: sendCommand while Ready and another command is pending is rejected with
\* CommandBusy, writes nothing, and leaves the pending command, its timer and
\* the receive buffer as they were.
C2_BusyLeavesPending ==
    [][(SendTask /\ Ready /\ pendingCommand # NoCmd)
          => /\ Rejected("CommandBusy")'
             /\ written' = <<>>
             /\ UNCHANGED <<pendingCommand, cmdTimers, responseBuffer, outstanding>>]_vars

\* A user command has just been refused as busy while a poll was in flight.
C2_Witness ==
    /\ Rejected("CommandBusy")
    /\ settled[1].who = "user"
    /\ pendingCommand.kind = "poll"
    /\ pendingCommand.id \in cmdTimers

\* C3: the timeout of a command that got no data rejects it with CommandTimeout
\* and clears the pending slot and the receive buffer, and the sendCommand that
\* follows while the connection is still Ready is accepted.
C3_TimeoutFreesSlot ==
    [][/\ \A id \in CmdIds :
            (CommandTimerFires(id) /\ pendingCommand.id = id /\ pendingCommand \in outstanding)
               => /\ Rejected("CommandTimeout")'
                  /\ pendingCommand' = NoCmd
                  /\ responseBuffer' = <<>>
                  /\ outstanding' = {}
       /\ (SendTask /\ Ready /\ Rejected("CommandTimeout"))
               => /\ settled' = <<>>
                  /\ pendingCommand' \in outstanding'
                  /\ Len(written') = 1]_vars

\* A command sent right after a timeout, on a Ready connection, is in flight.
C3_Witness ==
    /\ Rejected("CommandTimeout")
    /\ Ready
    /\ pendingCommand = NoCmd
    /\ responseBuffer = <<>>

\* C4: sendCommand while the connection is not Ready is rejected with
\* NotConnected, pending command or not; it writes nothing and leaves the
\* pending slot as it was.
C4_NotConnected ==
    [][(SendTask /\ ~Ready)
          => /\ Rejected("NotConnected")'
             /\ written' = <<>>
             /\ UNCHANGED <<pendingCommand, cmdTimers, responseBuffer, outstanding>>]_vars

\* A command was refused as not connected while an older one was still pending.
C4_Witness ==
    /\ Rejected("NotConnected")
    /\ ~connected
    /\ pendingCommand # NoCmd

(***************************************************************************)
(* Properties of the handshake and of connect().                           *)
(***************************************************************************)
InLog(log, what, who, how) ==
    \E i \in 1..Len(log) : log[i] = [what |-> what, who |-> who, how |-> how]

Emitted(ev) == \E i \in 1..Len(emitted) : emitted[i] = ev

\* C5: on every socket the plaintext gateway-identifier request is the first
\* write and the only plaintext one, and no encrypted command is written on a
\* socket before that socket's identifier response was received and the key
\* derived from it.
C5_PlaintextOnlyFirst ==
    \A s \in Sockets :
        /\ socks[s].firstWrite \in {"none", "gw"}
        /\ socks[s].gwWrites <= 1
        /\ ~socks[s].encEarly
        /\ \A i \in 1..Len(written) :
              (written[i].sock = s /\ written[i].kind = "cmd") => socks[s].keyed

\* An encrypted command has just been written on a socket of a reconnect.
C5_Witness ==
    \E s \in Sockets :
        /\ socks[s].caller = "reconnect"
        /\ socks[s].firstWrite = "gw"
        /\ socks[s].keyed
        /\ written = <<[sock |-> s, kind |-> "cmd"]>>

\* C6: connected implies that the key is set and the socket exists, and
\* connect() resolves and 'connected' is emitted only once the socket is
\* established and the key derived from its handshake response.
C6_ReadyImpliesKey ==
    /\ connected =>
          /\ encryptionKey # NoKey
          /\ socket # NoSocket
          /\ socks[socket].state = "open"
          /\ socks[socket].keyed
          /\ socks[socket].attempt = "resolved"
    /\ (\E who \in {"user", "reconnect"} : InLog(settled, "connect", who, "resolved"))
          => connected
    /\ Emitted("connected") =>
          /\ connected
          /\ \E who \in {"user", "reconnect"} : InLog(settled, "connect", who, "resolved")

\* The caller's connect() has just resolved, with the notification.
C6_Witness ==
    /\ InLog(settled, "connect", "user", "resolved")
    /\ Emitted("connected")
    /\ connected
    /\ encryptionKey = generateKey(socks[socket].hub)

\* The connect() attempt on socket s was rejected in this task: the socket is
\* destroyed, the state is not Ready and nothing was announced.
AttemptRejected(s) ==
    /\ socks[s].attempt = "rejected"
    /\ socks[s].state = "closed"
    /\ InLog(settled, "connect", socks[s].caller, "rejected")
    /\ ~connected
    /\ ~Emitted("connected")

\* C7: a connect timeout, a handshake timeout and a handshake response that
\* does not parse each reject connect() and destroy the socket; the attempt
\* never makes the state Ready and never emits 'connected'.
C7_FailedAttempt ==
    [][\A s \in Sockets :
        /\ ConnectTimeout(s) => AttemptRejected(s)'
        /\ (HandshakeTimerFires /\ Head(loop).s = s /\ socks[s].attempt = "handshake")
              => AttemptRejected(s)'
        /\ (HubAnswersHandshake(s) /\ socks[s].attempt = "handshake" /\ ~connected')
              => AttemptRejected(s)'
        /\ socks[s].attempt = "rejected"
              => socks'[s].attempt \in {"rejected", "none"}]_vars

\* The caller's connect() was rejected after the socket had been established:
\* a handshake that failed.
C7_Witness ==
    \E s \in Sockets :
        /\ AttemptRejected(s)
        /\ socks[s].caller = "user"
        /\ socks[s].handlers

(***************************************************************************)
(* Properties of the reconnect cycle.                                      *)
(***************************************************************************)
RcTimers == Cardinality(RcPositions(loop))

\* The reconnect attempts in flight: connect() promises of the reconnect timer
\* that can still settle (one whose socket was destroyed while connecting never
\* does).
RcAttempts ==
    Cardinality({s \in Sockets :
        /\ socks[s].caller = "reconnect"
        /\ \/ socks[s].attempt = "connecting" /\ socks[s].state = "connecting"
           \/ socks[s].attempt = "handshake"})

CloseOf(s) == HubCloses(s) \/ CloseEvent(s)

\* C8: the close event of the socket of a Ready connection makes the state
\* Disconnected, emits 'disconnected' once and leaves one reconnect scheduled.
C8_CloseSchedulesOne ==
    [][\A s \in Sockets :
        (CloseOf(s) /\ Ready /\ socket = s)
           => /\ ~connected'
              /\ emitted' = <<"disconnected">>
              /\ reconnecting'
              /\ reconnectTimer' = "armed"
              /\ RcTimers' = 1
              /\ RcAttempts' = 0]_vars

\* The hub closed the socket of a Ready connection.
C8_Witness ==
    /\ emitted = <<"disconnected">>
    /\ encryptionKey # NoKey
    /\ socket # NoSocket
    /\ socks[socket].state = "closed"
    /\ socks[socket].attempt = "resolved"
    /\ RcTimers = 1

\* C9: at most one reconnect cycle is active: never more than one reconnect
\* timer armed or reconnect attempt in flight, and a close event that arrives
\* while a cycle is active changes nothing of it.
C9_OneCycle ==
    /\ [](RcTimers + RcAttempts <= 1)
    /\ [](RcTimers + RcAttempts = 1 => reconnecting)
    /\ [][\A s \in Sockets :
            (CloseOf(s) /\ reconnecting)
               => /\ RcTimers' = RcTimers
                  /\ RcAttempts' = RcAttempts
                  /\ UNCHANGED <<reconnecting, reconnectTimer>>]_vars

\* The socket of a reconnect attempt closed during its handshake: the close
\* was handled, and no timer was armed beside the attempt.
C9_Witness ==
    \E s \in Sockets :
        /\ socks[s].caller = "reconnect"
        /\ socks[s].attempt = "handshake"
        /\ socks[s].state = "closed"
        /\ emitted = <<"disconnected">>
        /\ RcTimers = 0

\* A reconnect attempt was rejected in this task.
RcRejected == InLog(settled, "connect", "reconnect", "rejected")

\* A step in which a connect or a handshake fails: the connection is refused or
\* times out, the hub closes the socket, or the handshake request gets a bad
\* answer or none before its timer fires.
Failure ==
    \E s \in Sockets :
        \/ ConnectError(s)
        \/ ConnectTimeout(s)
        \/ HubCloses(s)
        \/ HubIgnores(s) /\ Head(socks[s].unanswered).kind = "gw"
        \/ HubAnswersHandshake(s) /\ socks[s].attempt = "handshake"
               /\ socks'[s].attempt # "resolved"
        \/ HandshakeTimerFires /\ Head(loop).s = s /\ socks[s].attempt = "handshake"

\* C10: while disconnect() has not been called, every failed reconnect attempt
\* leaves the next attempt scheduled, however many have failed before; and if
\* from some point on connects and handshakes succeed, a connection that is
\* reconnecting becomes Ready again (or disconnect() is called).
C10_RetriesUntilReady ==
    /\ [][(RcRejected' /\ ~disconnectCalled')
             => (reconnecting' /\ RcTimers' = 1 /\ RcAttempts' = 0)]_vars
    /\ (<>[][~Failure]_vars)
          => ((reconnecting /\ ~connected) ~> (Ready \/ disconnectCalled))

\* A reconnect attempt has just failed, and the next one is scheduled.
C10_Witness ==
    /\ RcRejected
    /\ ~disconnectCalled
    /\ reconnecting
    /\ RcTimers = 1
    /\ \E s \in Sockets : socks[s].caller = "reconnect" /\ socks[s].attempt = "rejected"

(***************************************************************************)
(* Properties of failure recovery and of disconnect().                     *)
(***************************************************************************)
\* A 'close' event of a socket with the connection's listeners is still to be
\* delivered: its handler will call scheduleReconnect.
ClosePending ==
    \E i \in 1..Len(loop) : loop[i].t = "close" /\ socks[loop[i].s].handlers

\* A reconnect is scheduled or in progress.
RetryPending == RcTimers >= 1 \/ RcAttempts >= 1 \/ ClosePending

\* C11: once the caller's connect() has settled and while disconnect() has not
\* been called, the connection is Ready or a reconnect is scheduled or in
\* progress, whatever transport failure happened, that of the first connect()
\* included.
C11_NoDeadEnd ==
    (user \in {"resolved", "rejected"} /\ ~disconnectCalled)
        => (Ready \/ RetryPending)

\* The first connect() was refused before the socket was established.
C11_Witness ==
    /\ user = "rejected"
    /\ ~disconnectCalled
    /\ \E s \in Sockets : socks[s].caller = "user" /\ ~socks[s].handlers
                              /\ socks[s].attempt = "rejected"

\* What disconnect() leaves: no poll, keep-alive or reconnect timer, no socket,
\* not connected, no key.
Disconnected ==
    /\ ~pollingTimer /\ pollArmed = 0
    /\ ~pingTimer /\ pingArmed = 0
    /\ reconnectTimer = "null" /\ RcTimers = 0
    /\ socket = NoSocket
    /\ ~connected
    /\ encryptionKey = NoKey

\* C12: disconnect(), from any state, cancels the poll, keep-alive and
\* reconnect timers, destroys and releases the socket, and leaves the state
\* Disconnected without a key; called again in that state it changes nothing;
\* it raises no error.
C12_DisconnectResets ==
    [][UserDisconnect
          => /\ Disconnected'
             /\ socket # NoSocket => socks'[socket].state \in {"closed", "free"}
             /\ ~uncaught'
             /\ emitted' = <<>> /\ written' = <<>> /\ settled' = <<>>
             /\ Disconnected => UNCHANGED <<socks, loop, pendingCommand, cmdTimers,
                                            responseBuffer, outstanding, reconnecting,
                                            user>>]_vars

\* disconnect() was called during a reconnect cycle and with polling on: no
\* timer is left, the socket is gone.
C12_Witness ==
    /\ disconnectCalled
    /\ Disconnected
    /\ reconnecting
    /\ \E i \in 1..Len(loop) : loop[i].t = "close"

\* C13: after disconnect() no reconnect is scheduled or made, polling is not
\* started again and the connection stays Disconnected, also once the 'close'
\* event of the socket that disconnect() destroyed has been delivered.
C13_DisconnectIsFinal ==
    disconnectCalled
        => /\ RcTimers = 0
           /\ RcAttempts = 0
           /\ ~connected
           /\ ~pollingTimer /\ pollArmed = 0

\* The 'close' event of the socket disconnect() destroyed has just been handled.
C13_Witness ==
    /\ disconnectCalled
    /\ emitted = <<"disconnected">>
    /\ socket = NoSocket

(***************************************************************************)
(* Properties of the pending command across closes, timeouts and errors.   *)
(***************************************************************************)
\* C14: the 'close' event of a socket cancels the pending command: the pending
\* slot is empty once the close has been handled, so that the command cannot
\* block a sendCommand issued after the reconnect.
C14_CloseCancelsPending ==
    [][\A s \in Sockets :
          (CloseOf(s) /\ socks[s].handlers) => pendingCommand' = NoCmd]_vars

\* A socket closed while a command was pending: the close has been handled and
\* the command is still in the slot.
C14_Witness ==
    /\ ~connected
    /\ emitted = <<"disconnected">>
    /\ pendingCommand # NoCmd
    /\ socks[pendingCommand.sock].state = "closed"

\* C15: the response to a command whose timeout has fired is never delivered
\* as the result of a command, the timed-out one or a later one.
C15_LateResponseDiscarded ==
    \A i \in 1..Len(settled) :
        ~(settled[i].what = "cmd" /\ settled[i].how = "resolvedStale")

\* The response to a timed-out command arrived while no command was pending:
\* it lies in the receive buffer.
C15_Witness ==
    /\ pendingCommand = NoCmd
    /\ responseBuffer # <<>>
    /\ responseBuffer[1].type = "enc"
    /\ ~responseBuffer[1].fresh

\* A command failed in this task in the given way.
Failed(how) ==
    \E i \in 1..Len(settled) : settled[i].what = "cmd" /\ settled[i].how = how

CommandFailures == {"CommandTimeout", "DecryptError", "DecodeError", "UnexpectedCommand"}

\* C16: a command timeout, a response that fails to decrypt or decode, and a
\* response of an unexpected command fail only the command in flight: no socket
\* is destroyed, connected and the key are unchanged, no 'disconnected' is
\* emitted, no reconnect is scheduled, the pending slot is free, and a
\* sendCommand made while Ready with a free slot is accepted.
C16_CommandFailureIsLocal ==
    /\ [][((\E id \in CmdIds : CommandTimerFires(id)) \/ (\E s \in Sockets : HubAnswersCommand(s)))
           /\ (\E how \in CommandFailures : Failed(how)')
          => /\ UNCHANGED <<socket, connected, encryptionKey, reconnecting,
                            reconnectTimer, loop>>
             /\ \A s \in Sockets : socks[s].state \in {"connecting", "open"}
                                       => socks'[s].state = socks[s].state
             /\ emitted' = <<>>
             /\ pendingCommand' = NoCmd
             /\ responseBuffer' = <<>>]_vars
    /\ [][(SendTask /\ Ready /\ pendingCommand = NoCmd)
             => (written' = <<[sock |-> socket, kind |-> "cmd"]>>
                 /\ pendingCommand' # NoCmd)]_vars

\* A user command has just failed on a response of another command, on a Ready
\* connection.
C16_Witness ==
    /\ Ready
    /\ settled = <<[what |-> "cmd", who |-> "user", how |-> "UnexpectedCommand"]>>
    /\ pendingCommand = NoCmd

(***************************************************************************)
(* Properties of polling.                                                  *)
(***************************************************************************)
\* A status poll or a keep-alive ping failed in this task.
PollOrPingFailed ==
    \E i \in 1..Len(settled) :
        /\ settled[i].what = "cmd"
        /\ settled[i].who \in {"poll", "ping"}
        /\ settled[i].how \in CommandFailures \cup {"NotConnected", "CommandBusy"}

\* C17: the failure of a status poll or of a keep-alive ping raises no error
\* to anyone and cancels neither the polling timer nor the keep-alive timer,
\* and every tick of either timer makes its request.
C17_PollFailureSwallowed ==
    /\ [][PollOrPingFailed'
             => /\ ~uncaught'
                /\ user' = user
                /\ pollingTimer => pollingTimer'
                /\ pingTimer => pingTimer'
                /\ pollArmed' >= pollArmed
                /\ pingArmed' >= pingArmed]_vars
    /\ [][(PollTick \/ PingTick)
             => \/ written' = <<[sock |-> socket, kind |-> "cmd"]>>
                \/ PollOrPingFailed']_vars

\* A poll was refused because a command was pending; the polling timer is
\* still armed.
C17_Witness ==
    /\ settled = <<[what |-> "cmd", who |-> "poll", how |-> "CommandBusy"]>>
    /\ pollingTimer
    /\ pollArmed > 0
    /\ pingArmed > 0

\* The task made exactly one status poll: its request was written and is the
\* pending command, or it was refused at once.
OnePollMade ==
    LET refused == {i \in 1..Len(settled) :
                       settled[i].what = "cmd" /\ settled[i].who = "poll"}
    IN  \/ /\ written = <<[sock |-> socket, kind |-> "cmd"]>>
           /\ pendingCommand.kind = "poll"
           /\ refused = {}
        \/ /\ written = <<>>
           /\ Cardinality(refused) = 1
           /\ \A i \in refused : settled[i].how \in {"NotConnected", "CommandBusy"}

\* The polls whose response was decoded in this task, and the device lists
\* announced in it.
PollsDecoded ==
    {i \in 1..Len(settled) :
        /\ settled[i].what = "cmd" /\ settled[i].who = "poll"
        /\ settled[i].how \in {"resolved", "resolvedStale"}}

StatusUpdates == {i \in 1..Len(emitted) : emitted[i] = "deviceStatusUpdate"}

\* C18: startPolling(), when polling is not running, makes one status poll at
\* once, and every tick of the polling timer makes one; a poll requests the
\* status of the broadcast address 0xFFFF alone, with listLen 1; and
\* 'deviceStatusUpdate' is emitted once for each poll whose response decodes
\* and for no other.
C18_PollAndNotify ==
    /\ [][((UserStartPolling /\ ~pollingTimer) \/ PollTick) => OnePollMade']_vars
    /\ [][(pendingCommand' # pendingCommand /\ pendingCommand'.kind = "poll")
             => /\ pollRequest.cmdId = 2
                /\ pollRequest.listLen = 1
                /\ pollRequest.data = <<255, 255>>]_vars
    /\ [](Cardinality(StatusUpdates) = Cardinality(PollsDecoded))

\* The response to a status poll has just been decoded and announced.
C18_Witness ==
    /\ settled = <<[what |-> "cmd", who |-> "poll", how |-> "resolved"]>>
    /\ emitted = <<"deviceStatusUpdate">>

(***************************************************************************)
(* getGroupedDeviceIds on its own: the hub's group membership is drawn at  *)
(* the start, and each awaited request resolves or rejects.                *)
(***************************************************************************)
InitGroups ==
    /\ Constructed
    /\ grp \in {grpIdle(m) : m \in Memberships}
    /\ call = NoCall

\* SmartikaPlatform.discoverDevices: await this.hub.getGroupedDeviceIds()
CallGetGroupedDeviceIds ==
    /\ grp.pc = "idle"
    /\ grp' = getGroupedDeviceIds(grp)

ListGroupsResolves ==
    /\ grp.pc = "listing"
    /\ \E groupIds \in GroupLists : grp' = listGroupsResolved(grp, groupIds)

ListGroupsRejects ==
    /\ grp.pc = "listing"
    /\ grp' = listGroupsRejected(grp)

ReadGroupResolves ==
    /\ grp.pc = "reading"
    /\ grp' = readGroupResolved(grp, grp.members[grp.groupIds[grp.i]])

ReadGroupRejects ==
    /\ grp.pc = "reading"
    /\ grp' = readGroupRejected(grp)

NextGroups ==
    /\ \/ CallGetGroupedDeviceIds
       \/ ListGroupsResolves
       \/ ListGroupsRejects
       \/ ReadGroupResolves
       \/ ReadGroupRejects
    /\ UNCHANGED <<socket, encryptionKey, connected, reconnecting, pollingTimer,
                   pingTimer, reconnectTimer, pendingCommand, responseBuffer,
                   socks, loop, cmdTimers, outstanding, pollArmed, pingArmed,
                   user, disconnectCalled, emitted, written, settled, uncaught,
                   call>>

SpecGroups == InitGroups /\ [][NextGroups]_vars

\* The requests a complete call makes: one listing, then one read per listed group.
ReadRequests(groupIds) ==
    [k \in 1..Len(groupIds) |-> [op |-> "readGroup", groupId |-> groupIds[k]]]

AllRequests(groupIds) ==
    <<[op |-> "listGroups", groupId |-> "none"]>> \o ReadRequests(groupIds)

\* C19: getGroupedDeviceIds never fails.  It returns the union of the members
\* of the groups whose read resolved; a rejected read leaves out that group
\* only, and the later groups are still read; a rejected listing gives the
\* empty set.  At most one request is awaited at a time, and the requests are
\* the listing followed by one read per listed group, in the listed order.
C19_GroupedDeviceIds ==
    /\ grp.awaiting <= 1
    /\ grp.awaiting = 1 <=> grp.pc \in {"listing", "reading"}
    /\ Len(grp.sent) <= 1 + Len(grp.groupIds)
    /\ grp.sent = SubSeq(AllRequests(grp.groupIds), 1, Len(grp.sent))
    /\ Len(grp.sent) = (IF grp.pc = "idle" THEN 0 ELSE 1 + grp.i)
    /\ grp.pc = "done" =>
          /\ grp.returned
          /\ grp.groupedDevices = UNION {grp.members[x] : x \in grp.read}
          /\ grp.listed = "failed" =>
                grp.groupedDevices = {} /\ Len(grp.sent) = 1
          /\ grp.listed = "ok" => grp.sent = AllRequests(grp.groupIds)

C19_Witness ==
    /\ grp.pc = "done"
    /\ Len(grp.groupIds) = 2
    /\ grp.read = {grp.groupIds[2]}
    /\ grp.members[grp.groupIds[1]] # {}
    /\ grp.groupedDevices # {}
    /\ grp.groupedDevices \cap grp.members[grp.groupIds[1]] = {}

\* A connect() promise resolved in the last task.
ConnectResolved ==
    \E i \in 1..Len(settled) : settled[i].what = "connect" /\ settled[i].how = "resolved"

\* The task in which the hub's identifier response on socket s completes the
\* handshake: the key is the one derived from the identifier in that response.
HandshakeCompletes(s) ==
    /\ HubAnswersHandshake(s)
    /\ ConnectResolved'
    /\ socket' = s
    /\ socks'[s].keyed
    /\ encryptionKey' = generateKey(socks'[s].hub)

\* C20: the encryption key changes only in the task that completes a
\* handshake, to the key derived from the identifier received on that socket,
\* or in disconnect(), to null; every connect() that resolves, first or
\* reconnect, does so in a task that received the identifier on the current
\* socket and derived the key from it; a command, a poll, a ping, a timer or
\* a socket close leaves the key as it is.
C20_KeyChanges ==
    [][/\ encryptionKey' # encryptionKey
            => \/ UserDisconnect /\ encryptionKey' = NoKey
               \/ \E s \in Sockets : HandshakeCompletes(s)
       /\ ConnectResolved' => \E s \in Sockets : HandshakeCompletes(s)
       /\ (\/ SendTask
           \/ UserStartPolling
           \/ UserStopPolling
           \/ HandshakeTimerFires
           \/ ReconnectTimerFires
           \/ \E id \in CmdIds : CommandTimerFires(id)
           \/ \E s \in Sockets : \/ CloseOf(s)
                                  \/ HubAnswersCommand(s)
                                  \/ ConnectTimeout(s)
                                  \/ ConnectError(s))
            => encryptionKey' = encryptionKey]_vars

C20_Witness ==
    /\ InLog(settled, "connect", "reconnect", "resolved")
    /\ Ready
    /\ socket # NoSocket
    /\ encryptionKey = generateKey(socks[socket].hub)
    /\ encryptionKey = generateKey("hubB")

(***************************************************************************)
(* SmartikaProtocol: buffers are sequences of bytes, the byte at offset o  *)
(* being element o + 1.                                                    *)
(***************************************************************************)
START_MARK_REQUEST == 65024
START_MARK_RESPONSE == 65025
END_MARK == 255

\* a ^ b on non-negative integers.
RECURSIVE xor(_, _)
xor(a, b) ==
    IF a = 0 THEN b
    ELSE IF b = 0 THEN a
    ELSE (((a % 2) + (b % 2)) % 2) + 2 * xor(a \div 2, b \div 2)

\* buf.writeUInt16BE(v) into two bytes, buf.readUInt16BE(off), buf.readUInt8(off)
writeUInt16BE(v) == <<v \div 256, v % 256>>
readUInt16BE(buf, off) == buf[off + 1] * 256 + buf[off + 2]
readUInt8(buf, off) == buf[off + 1]

\* buf.subarray(start, end): both ends are clamped to the buffer.
subarray(buf, start, end) ==
    LET e == IF end > Len(buf) THEN Len(buf) ELSE end
    IN  IF start >= e THEN <<>> ELSE SubSeq(buf, start + 1, e)

RECURSIVE xorAll(_, _)
xorAll(data, fcs) ==
    IF data = <<>> THEN fcs ELSE xorAll(Tail(data), xor(fcs, Head(data)))

\* computeChecksum(data)
computeChecksum(data) == xorAll(data, 0)

\* createPacket that writes its 16-bit fields low byte first.
createPacketLittleEndian(cmdId, data, listLen, isRequest) ==
    LET startMark == IF isRequest THEN START_MARK_REQUEST ELSE START_MARK_RESPONSE
        le(v) == <<v % 256, v \div 256>>
        fcsData == le(cmdId) \o le(Len(data)) \o le(listLen) \o data
    IN  writeUInt16BE(startMark) \o fcsData \o <<computeChecksum(fcsData)>>
            \o writeUInt16BE(END_MARK)

\* createPacket that always writes a list length of 0.
createPacketNoListLen(cmdId, data, listLen, isRequest) ==
    LET startMark == IF isRequest THEN START_MARK_REQUEST ELSE START_MARK_RESPONSE
        fcsData == writeUInt16BE(cmdId) \o writeUInt16BE(Len(data))
                      \o writeUInt16BE(0) \o data
    IN  writeUInt16BE(startMark) \o fcsData \o <<computeChecksum(fcsData)>>
            \o writeUInt16BE(END_MARK)

\* createPacket(cmdId, data, listLen, isRequest)
createPacket(cmdId, data, listLen, isRequest) ==
    LET startMark == IF isRequest THEN START_MARK_REQUEST ELSE START_MARK_RESPONSE
        dataLen == Len(data)
        fcsData == writeUInt16BE(cmdId) \o writeUInt16BE(dataLen)
                      \o writeUInt16BE(listLen) \o data
        fcs == computeChecksum(fcsData)
    IN  writeUInt16BE(startMark) \o fcsData \o <<fcs>> \o writeUInt16BE(END_MARK)

\* What parsePacket gives: the Error it throws, or the packet it returns.
thrown(message) ==
    [error |-> message, cmdId |-> 0, dataLen |-> 0, listLen |-> 0, data |-> <<>>,
     isRequest |-> FALSE]

\* parsePacket that verifies the checksum before the end mark.
parsePacketChecksumFirst(packet) ==
    IF Len(packet) < 11 THEN thrown("Packet too short")
    ELSE LET startMark == readUInt16BE(packet, 0)
             dataLen == readUInt16BE(packet, 4)
         IN  IF startMark # START_MARK_REQUEST /\ startMark # START_MARK_RESPONSE
             THEN thrown("Invalid start mark")
             ELSE IF Len(packet) < 8 + dataLen + 3
             THEN thrown("Packet data incomplete")
             ELSE IF readUInt8(packet, 8 + dataLen)
                        # computeChecksum(subarray(packet, 2, 8 + dataLen))
             THEN thrown("Checksum mismatch")
             ELSE IF readUInt16BE(packet, 8 + dataLen + 1) # END_MARK
             THEN thrown("Invalid end mark")
             ELSE [error |-> "none", cmdId |-> readUInt16BE(packet, 2),
                   dataLen |-> dataLen, listLen |-> readUInt16BE(packet, 6),
                   data |-> subarray(packet, 8, 8 + dataLen),
                   isRequest |-> startMark = START_MARK_REQUEST]

\* parsePacket that does not verify the checksum.
parsePacketNoChecksum(packet) ==
    IF Len(packet) < 11 THEN thrown("Packet too short")
    ELSE LET startMark == readUInt16BE(packet, 0)
             dataLen == readUInt16BE(packet, 4)
         IN  IF startMark # START_MARK_REQUEST /\ startMark # START_MARK_RESPONSE
             THEN thrown("Invalid start mark")
             ELSE IF Len(packet) < 8 + dataLen + 3
             THEN thrown("Packet data incomplete")
             ELSE IF readUInt16BE(packet, 8 + dataLen + 1) # END_MARK
             THEN thrown("Invalid end mark")
             ELSE [error |-> "none", cmdId |-> readUInt16BE(packet, 2),
                   dataLen |-> dataLen, listLen |-> readUInt16BE(packet, 6),
                   data |-> subarray(packet, 8, 8 + dataLen),
                   isRequest |-> startMark = START_MARK_REQUEST]

\* parsePacket(packet)
parsePacket(packet) ==
    IF Len(packet) < 11 THEN thrown("Packet too short")
    ELSE LET startMark == readUInt16BE(packet, 0)
             isRequest == startMark = START_MARK_REQUEST
             cmdId == readUInt16BE(packet, 2)
             dataLen == readUInt16BE(packet, 4)
             listLen == readUInt16BE(packet, 6)
         IN  IF startMark # START_MARK_REQUEST /\ startMark # START_MARK_RESPONSE
             THEN thrown("Invalid start mark")
             ELSE IF Len(packet) < 8 + dataLen + 3
             THEN thrown("Packet data incomplete")
             ELSE LET data == subarray(packet, 8, 8 + dataLen)
                      fcs == readUInt8(packet, 8 + dataLen)
                      endMark == readUInt16BE(packet, 8 + dataLen + 1)
                      fcsData == subarray(packet, 2, 8 + dataLen)
                      expectedFcs == computeChecksum(fcsData)
                  IN  IF endMark # END_MARK THEN thrown("Invalid end mark")
                      ELSE IF fcs # expectedFcs THEN thrown("Checksum mismatch")
                      ELSE [error |-> "none", cmdId |-> cmdId, dataLen |-> dataLen,
                            listLen |-> listLen, data |-> data,
                            isRequest |-> isRequest]

\* The command ids of CMD that the modelled functions use.
CMD ==
    [DEVICE_SWITCH |-> 0, DEVICE_DISCOVERY |-> 1, DEVICE_STATUS |-> 2,
     LIGHT_DIM |-> 4, LIGHT_TEMPERATURE |-> 5, FAN_CONTROL |-> 6,
     PING |-> 257, JOIN_ENABLE |-> 260, JOIN_DISABLE |-> 261,
     FIRMWARE_VERSION |-> 262, DB_LIST_DEVICE |-> 512,
     DB_LIST_DEVICE_FULL |-> 515, GROUP_LIST |-> 1024, GROUP_READ |-> 1027]

\* Buffer.alloc(1 + deviceIds.length * 2) with the value written at offset 0
\* and each id written big-endian at offset 1 + index * 2.
valueAndIds(value, deviceIds) ==
    [i \in 1..(1 + 2 * Len(deviceIds)) |->
        IF i = 1 THEN value
        ELSE IF i % 2 = 0 THEN deviceIds[i \div 2] \div 256
        ELSE deviceIds[(i - 1) \div 2] % 256]

\* createDeviceSwitchRequest that writes 0xFF for on.
createDeviceSwitchRequestFF(on, deviceIds) ==
    createPacket(CMD.DEVICE_SWITCH, valueAndIds(IF on THEN 255 ELSE 0, deviceIds),
                 Len(deviceIds), TRUE)

\* createDeviceSwitchRequest(on, deviceIds)
createDeviceSwitchRequest(on, deviceIds) ==
    createPacket(CMD.DEVICE_SWITCH, valueAndIds(IF on THEN 1 ELSE 0, deviceIds),
                 Len(deviceIds), TRUE)

\* createLightDimRequest(brightness, deviceIds)
createLightDimRequest(brightness, deviceIds) ==
    createPacket(CMD.LIGHT_DIM, valueAndIds(brightness, deviceIds),
                 Len(deviceIds), TRUE)

\* createLightTemperatureRequest(temperature, deviceIds)
createLightTemperatureRequest(temperature, deviceIds) ==
    createPacket(CMD.LIGHT_TEMPERATURE, valueAndIds(temperature, deviceIds),
                 Len(deviceIds), TRUE)

\* createFanControlRequest(speed, deviceIds)
createFanControlRequest(speed, deviceIds) ==
    createPacket(CMD.FAN_CONTROL, valueAndIds(speed, deviceIds),
                 Len(deviceIds), TRUE)

\* DEVICE_TYPE_CATEGORY[typeId], or "unknown" where the table has no entry.  A
\* 32-bit type id is kept as its two 16-bit halves <<high, low>>.
category(typeId) ==
    IF typeId \in {<<0, 1>>, <<0, 8>>, <<0, 9>>, <<0, 11>>, <<16384, 1>>}
                     \cup {<<0, low>> : low \in 4097..4106}
    THEN "light"
    ELSE IF typeId \in {<<0, 5>>, <<16384, 3>>} THEN "fan"
    ELSE IF typeId \in {<<0, 7>>, <<16384, 4>>} THEN "plug"
    ELSE IF typeId \in {<<0, 8193>>, <<0, 8194>>, <<16384, 8194>>} THEN "thermostat"
    ELSE IF typeId = <<0, 13>> THEN "sensor"
    ELSE IF typeId \in {<<32768, 2>>, <<32768, 4>>, <<32768, 6>>, <<32768, 8>>}
    THEN "remote"
    ELSE "unknown"

\* What a response decoder gives: the Error it throws, or the value it returns.
failed(message) == [error |-> message, value |-> <<>>]
returned(value) == [error |-> "none", value |-> value]

\* for (let i = 0; i < listLen; i++) ids.push(data.readUInt16BE(start + i * 2)):
\* a read past the end of data throws a RangeError.
readIds(data, start, listLen) ==
    IF \E i \in 0..(listLen - 1) : start + i * 2 + 2 > Len(data)
    THEN failed("RangeError")
    ELSE returned([i \in 1..listLen |-> readUInt16BE(data, start + (i - 1) * 2)])

\* The loop of parseDeviceDiscoveryResponse (the address is a subarray) and of
\* parseDbListDeviceFullResponse (full: the address is read as one 64-bit
\* number), over entries of 14 bytes.
RECURSIVE deviceLoop(_, _, _, _, _)
deviceLoop(data, listLen, full, i, devices) ==
    LET offset == i * 14
    IN  IF ~(i < listLen /\ offset < Len(data)) THEN returned(devices)
        ELSE IF offset + (IF full THEN 14 ELSE 6) > Len(data)
        THEN failed("RangeError")
        ELSE deviceLoop(data, listLen, full, i + 1,
                Append(devices,
                       [shortAddress |-> readUInt16BE(data, offset),
                        typeId |-> <<readUInt16BE(data, offset + 2),
                                     readUInt16BE(data, offset + 4)>>,
                        macAddress |-> subarray(data, offset + 6, offset + 14)]))

\* The state of a device of parseDeviceStatusResponse, by category.
deviceState(typeId, stateLen, stateData) ==
    LET at(k) == IF k < Len(stateData) THEN stateData[k + 1] ELSE "undefined"
        on == IF Len(stateData) = 0 THEN TRUE ELSE stateData[1] # 0
    IN  IF category(typeId) = "light" /\ stateLen >= 3
        THEN [on |-> on, brightness |-> at(1), temperature |-> at(2)]
        ELSE IF category(typeId) = "fan" /\ stateLen >= 2
        THEN [on |-> on, speed |-> at(1)]
        ELSE IF category(typeId) = "plug" /\ stateLen >= 1
        THEN [on |-> on]
        ELSE [rawState |-> stateData]

\* A loop that takes every entry for 10 bytes long.
RECURSIVE statusLoopFixedStride(_, _, _, _, _)
statusLoopFixedStride(data, listLen, i, offset, devices) ==
    IF ~(i < listLen /\ offset < Len(data)) THEN returned(devices)
    ELSE IF offset + 7 > Len(data) THEN failed("RangeError")
    ELSE LET shortAddress == readUInt16BE(data, offset)
             typeId == <<readUInt16BE(data, offset + 2),
                         readUInt16BE(data, offset + 4)>>
             stateLen == readUInt8(data, offset + 6)
             stateData == subarray(data, offset + 7, offset + 7 + stateLen)
         IN  statusLoopFixedStride(data, listLen, i + 1, offset + 10,
                Append(devices,
                       [shortAddress |-> shortAddress, typeId |-> typeId,
                        category |-> category(typeId),
                        state |-> deviceState(typeId, stateLen, stateData)]))

\* The loop of parseDeviceStatusResponse.
RECURSIVE statusLoop(_, _, _, _, _)
statusLoop(data, listLen, i, offset, devices) ==
    IF ~(i < listLen /\ offset < Len(data)) THEN returned(devices)
    ELSE IF offset + 7 > Len(data) THEN failed("RangeError")
    ELSE LET shortAddress == readUInt16BE(data, offset)
             typeId == <<readUInt16BE(data, offset + 2),
                         readUInt16BE(data, offset + 4)>>
             stateLen == readUInt8(data, offset + 6)
             stateData == subarray(data, offset + 7, offset + 7 + stateLen)
         IN  statusLoop(data, listLen, i + 1, offset + 7 + stateLen,
                Append(devices,
                       [shortAddress |-> shortAddress, typeId |-> typeId,
                        category |-> category(typeId),
                        state |-> deviceState(typeId, stateLen, stateData)]))

\* parseDeviceStatusResponse(packet)
parseDeviceStatusResponse(packet) ==
    LET r == parsePacket(packet)
    IN  IF r.error # "none" THEN failed(r.error)
        ELSE IF r.cmdId # CMD.DEVICE_STATUS THEN failed("Unexpected command ID")
        ELSE statusLoop(r.data, r.listLen, 0, 0, <<>>)

\* The other response decoders, by name: each parses the frame, compares its
\* cmdId with its own command and decodes the data.
parseResponse(parser, packet) ==
    LET r == parsePacket(packet)
        expected ==
            CASE parser = "parsePingResponse" -> CMD.PING
              [] parser = "parseJoinEnableResponse" -> CMD.JOIN_ENABLE
              [] parser = "parseFirmwareVersionResponse" -> CMD.FIRMWARE_VERSION
              [] parser = "parseDeviceDiscoveryResponse" -> CMD.DEVICE_DISCOVERY
              [] parser = "parseDeviceSwitchResponse" -> CMD.DEVICE_SWITCH
              [] parser = "parseLightDimResponse" -> CMD.LIGHT_DIM
              [] parser = "parseLightTemperatureResponse" -> CMD.LIGHT_TEMPERATURE
              [] parser = "parseDbListDeviceResponse" -> CMD.DB_LIST_DEVICE
              [] parser = "parseDbListDeviceFullResponse" -> CMD.DB_LIST_DEVICE_FULL
              [] parser = "parseGroupListResponse" -> CMD.GROUP_LIST
              [] parser = "parseGroupReadResponse" -> CMD.GROUP_READ
    IN  IF parser = "parseDeviceStatusResponse" THEN parseDeviceStatusResponse(packet)
        ELSE IF r.error # "none" THEN failed(r.error)
        ELSE IF r.cmdId # expected THEN failed("Unexpected command ID")
        ELSE CASE parser = "parsePingResponse" ->
                    returned(<<Len(r.data) > 0 /\ r.data[1] # 0>>)
               [] parser = "parseJoinEnableResponse" ->
                    returned(<<IF Len(r.data) > 0 THEN r.data[1] ELSE 0>>)
               [] parser = "parseFirmwareVersionResponse" ->
                    IF Len(r.data) < 3
                    THEN failed("Firmware version response too short")
                    ELSE returned(SubSeq(r.data, 1, 3))
               [] parser = "parseDeviceDiscoveryResponse" ->
                    deviceLoop(r.data, r.listLen, FALSE, 0, <<>>)
               [] parser = "parseDbListDeviceFullResponse" ->
                    deviceLoop(r.data, r.listLen, TRUE, 0, <<>>)
               [] parser = "parseGroupReadResponse" ->
                    IF Len(r.data) < 2 THEN failed("RangeError")
                    ELSE readIds(r.data, 2, r.listLen)
               [] OTHER -> readIds(r.data, 0, r.listLen)

(***************************************************************************)
(* SmartikaCrypto.  AES-128 on one block is a keyed permutation of the     *)
(* 16-byte blocks; it is modelled by a permutation of the same kind (every *)
(* byte shifted by an amount that depends on the key and the position,     *)
(* positions rotated), a key being a number.  The chaining, the padding    *)
(* and the lengths are those of the code.                                  *)
(***************************************************************************)
BLOCK_SIZE == 16
IV == <<167, 45, 209, 41, 32, 223, 173, 97, 130, 3, 152, 250, 158, 239, 89, 32>>

\* One block through the cipher (decipher = FALSE) or back (decipher = TRUE).
aesBlock(key, block, decipher) ==
    IF decipher
    THEN [j \in 1..BLOCK_SIZE |->
            LET i == IF j = 1 THEN BLOCK_SIZE ELSE j - 1
            IN  (block[i] + 256 * BLOCK_SIZE - key * i) % 256]
    ELSE [i \in 1..BLOCK_SIZE |-> (block[(i % BLOCK_SIZE) + 1] + key * i) % 256]

\* createCipheriv('aes-128-cbc', key, IV) on whole blocks: each block is
\* XORed with the previous ciphertext block (the IV at first), then enciphered.
RECURSIVE cbcEncrypt(_, _, _)
cbcEncrypt(message, key, prev) ==
    IF message = <<>> THEN <<>>
    ELSE LET c == aesBlock(key, [i \in 1..BLOCK_SIZE |-> xor(message[i], prev[i])],
                           FALSE)
         IN  c \o cbcEncrypt(SubSeq(message, BLOCK_SIZE + 1, Len(message)), key, c)

\* createDecipheriv('aes-128-cbc', key, IV) on whole blocks.
RECURSIVE cbcDecrypt(_, _, _)
cbcDecrypt(message, key, prev) ==
    IF message = <<>> THEN <<>>
    ELSE LET c == SubSeq(message, 1, BLOCK_SIZE)
             d == aesBlock(key, c, TRUE)
         IN  [i \in 1..BLOCK_SIZE |-> xor(d[i], prev[i])]
                \o cbcDecrypt(SubSeq(message, BLOCK_SIZE + 1, Len(message)), key, c)

\* pad that appends a whole block to a message of whole blocks.
padAlways(message, random) ==
    message \o SubSeq(random \o random, 1, BLOCK_SIZE - (Len(message) % BLOCK_SIZE))

\* pad(message): random stands for crypto.randomBytes, of which the first
\* paddingLength bytes are taken.
pad(message, random) ==
    LET remainder == Len(message) % BLOCK_SIZE
    IN  IF remainder = 0 THEN message
        ELSE LET paddingLength == BLOCK_SIZE - remainder
             IN  message \o SubSeq(random, 1, paddingLength)

\* encrypt(message, key)
encryptBytes(message, key, random) == cbcEncrypt(pad(message, random), key, IV)

\* decrypt that returns the decrypted buffer with its padding.
decryptBytesKeepsPadding(message, key) ==
    IF Len(message) % BLOCK_SIZE # 0 THEN failed("wrong final block length")
    ELSE returned(cbcDecrypt(message, key, IV))

\* decrypt(message, key): decipher.final() throws when the length is no
\* multiple of the block size (setAutoPadding(false)).
decryptBytes(message, key) ==
    IF Len(message) % BLOCK_SIZE # 0 THEN failed("wrong final block length")
    ELSE LET decrypted == cbcDecrypt(message, key, IV)
         IN  IF Len(decrypted) > 11
                /\ readUInt16BE(decrypted, 0) \in {65024, 65025}
                /\ readUInt16BE(decrypted, 4) + 11 <= Len(decrypted)
             THEN returned(subarray(decrypted, 0, readUInt16BE(decrypted, 4) + 11))
             ELSE returned(decrypted)

\* The eight 16-byte keys of the derivation, and the key it starts from.
PRIVATE_KEY ==
    <<66, 107, 214, 205, 0, 89, 91, 3, 252, 203, 244, 221, 9, 37, 133, 27,
      63, 145, 147, 129, 179, 25, 178, 209, 65, 91, 247, 125, 253, 79, 76, 211,
      94, 0, 225, 192, 137, 161, 148, 212, 246, 234, 119, 170, 197, 27, 102, 103,
      238, 150, 205, 110, 195, 125, 138, 241, 208, 42, 16, 152, 167, 245, 177, 195,
      144, 58, 74, 183, 185, 229, 14, 71, 229, 160, 210, 27, 23, 208, 139, 90,
      85, 124, 80, 186, 2, 102, 167, 193, 204, 77, 103, 62, 209, 183, 238, 192,
      227, 52, 0, 31, 137, 122, 14, 199, 192, 73, 47, 238, 1, 123, 148, 82,
      147, 34, 192, 185, 187, 44, 70, 209, 189, 101, 95, 145, 86, 75, 23, 205>>

BASE_KEY == <<185, 67, 52, 181, 190, 222, 158, 5, 88, 226, 230, 216, 206, 186, 126, 71>>

\* generateKey that takes identifier byte 1 where the code takes byte 0.
generateKeyBytesFromByte1(macAddress) ==
    IF Len(macAddress) # 6 THEN failed("MAC address must be 6 bytes")
    ELSE LET baseKey == [BASE_KEY EXCEPT ![10] = macAddress[2], ![8] = macAddress[4],
                                         ![14] = macAddress[5], ![4] = macAddress[6]]
             RECURSIVE passes(_, _)
             passes(result, i) ==
                 IF i = 8 THEN result
                 ELSE passes(aesBlock(subarray(PRIVATE_KEY, i * 16, (i + 1) * 16)[1],
                                      result, FALSE), i + 1)
         IN  returned(passes(baseKey, 0))

\* generateKey(macAddress): four bytes of the identifier are written into a
\* copy of BASE_KEY, which goes through eight passes of the block cipher
\* ('aes-128-ecb', no padding), pass i under the i-th 16 bytes of PRIVATE_KEY
\* (a key of the cipher's stand-in being a number, the first byte of those 16
\* stands for them).
generateKeyBytes(macAddress) ==
    IF Len(macAddress) # 6 THEN failed("MAC address must be 6 bytes")
    ELSE LET baseKey == [BASE_KEY EXCEPT ![10] = macAddress[1], ![8] = macAddress[4],
                                         ![14] = macAddress[5], ![4] = macAddress[6]]
             RECURSIVE passes(_, _)
             passes(result, i) ==
                 IF i = 8 THEN result
                 ELSE passes(aesBlock(subarray(PRIVATE_KEY, i * 16, (i + 1) * 16)[1],
                                      result, FALSE), i + 1)
         IN  returned(passes(baseKey, 0))

\* parseMacAddress(macString): the separators are removed, the length is
\* checked, and Buffer.from(hex, 'hex') decodes the pairs of hexadecimal
\* digits up to the first pair that is not one (the rest is dropped).
parseMacAddress(macString) ==
    LET hex == SelectSeq(macString, LAMBDA ch : ch \notin {":", "-"})
        lower == <<"0", "1", "2", "3", "4", "5", "6", "7", "8", "9",
                   "a", "b", "c", "d", "e", "f">>
        upper == <<"0", "1", "2", "3", "4", "5", "6", "7", "8", "9",
                   "A", "B", "C", "D", "E", "F">>
        value(ch) == IF \E i \in 1..16 : lower[i] = ch
                     THEN (CHOOSE i \in 1..16 : lower[i] = ch) - 1
                     ELSE IF \E i \in 1..16 : upper[i] = ch
                     THEN (CHOOSE i \in 1..16 : upper[i] = ch) - 1
                     ELSE -1
        pair(k) == value(hex[2 * k - 1]) >= 0 /\ value(hex[2 * k]) >= 0
        n == Cardinality({k \in 1..(Len(hex) \div 2) : \A j \in 1..k : pair(j)})
    IN  IF Len(hex) # 12 THEN failed("Invalid MAC address format")
        ELSE returned([k \in 1..n |-> 16 * value(hex[2 * k - 1]) + value(hex[2 * k])])


(***************************************************************************)
(* The protocol functions on their own: the arguments of a call are drawn  *)
(* at the start, the frame it builds may be damaged on the way, and the    *)
(* decoder is applied to what arrives.                                     *)
(***************************************************************************)
\* The calls createPacket(cmdId, data, listLen, isRequest) that are tried.
FrameCalls ==
    {[op |-> "frame", stage |-> "args", cmdId |-> c, data |-> d, listLen |-> l,
      isRequest |-> r, packet |-> <<>>, edits |-> <<>>, result |-> thrown("none")] :
        c \in {257, 65535},
        d \in UNION {[1..n -> {0, 255}] : n \in 0..MaxData},
        l \in {0, 258},
        r \in BOOLEAN}

\* protocol.createPacket(cmdId, data, listLen, isRequest)
CreatePacket ==
    /\ call.op = "frame"
    /\ call.stage = "args"
    /\ call' = [call EXCEPT !.stage = "built",
                            !.packet = createPacket(call.cmdId, call.data,
                                                    call.listLen, call.isRequest)]

\* One byte of the frame is replaced on the way (positions in increasing order).
SetByte ==
    /\ call.op = "frame"
    /\ call.stage = "built"
    /\ Len(call.edits) < MaxEdits
    /\ \A k \in 1..Len(call.edits) : call.edits[k].kind = "set"
    /\ \E off \in 0..(Len(call.packet) - 1), v \in {0, 255} :
          /\ v # call.packet[off + 1]
          /\ \A k \in 1..Len(call.edits) : call.edits[k].off < off
          /\ call' = [call EXCEPT !.packet[off + 1] = v,
                                  !.edits = Append(@, [kind |-> "set", off |-> off,
                                                       bit |-> 0])]

\* One bit of one byte of the frame is flipped on the way.
FlipBit ==
    /\ call.op = "frame"
    /\ call.stage = "built"
    /\ call.edits = <<>>
    /\ \E off \in 0..(Len(call.packet) - 1), bit \in 0..7 :
          call' = [call EXCEPT !.packet[off + 1] = xor(@, 2 ^ bit),
                               !.edits = <<[kind |-> "flip", off |-> off,
                                            bit |-> bit]>>]

\* Only the first n bytes of the frame arrive.
Truncate ==
    /\ call.op = "frame"
    /\ call.stage = "built"
    /\ Len(call.edits) < MaxEdits
    /\ \A k \in 1..Len(call.edits) : call.edits[k].kind = "set"
    /\ \E n \in 0..(Len(call.packet) - 1) :
          call' = [call EXCEPT !.packet = SubSeq(@, 1, n),
                               !.edits = Append(@, [kind |-> "cut", off |-> n,
                                                    bit |-> 0])]

\* protocol.parsePacket(packet)
ParsePacket ==
    /\ call.op = "frame"
    /\ call.stage = "built"
    /\ call' = [call EXCEPT !.stage = "parsed", !.result = parsePacket(call.packet)]

\* The calls of the request builders that take a value and a device list:
\* the switch takes the boolean on, the others the byte value.
BuilderCalls ==
    {[op |-> "build", stage |-> "args", builder |-> b, on |-> o, value |-> v,
      deviceIds |-> ids, packet |-> <<>>] :
        b \in {"switch", "dim", "temperature", "fan"},
        o \in BOOLEAN,
        v \in {0, 128, 255},
        ids \in UNION {[1..n -> {10447, DEVICE_ID_BROADCAST}] : n \in 0..MaxIds}}

\* protocol.createDeviceSwitchRequest(on, ids), createLightDimRequest(...), ...
BuildRequest ==
    /\ call.op = "build"
    /\ call.stage = "args"
    /\ call' = [call EXCEPT
                  !.stage = "built",
                  !.packet =
                     CASE call.builder = "switch" ->
                            createDeviceSwitchRequest(call.on, call.deviceIds)
                       [] call.builder = "dim" ->
                            createLightDimRequest(call.value, call.deviceIds)
                       [] call.builder = "temperature" ->
                            createLightTemperatureRequest(call.value, call.deviceIds)
                       [] call.builder = "fan" ->
                            createFanControlRequest(call.value, call.deviceIds)]

\* The first k entries of a list response, as the hub of the given decoder
\* lays them out: addresses of 2 bytes, devices of 14 bytes, statuses of
\* 7 + stateLen bytes (a light with 3 state bytes, then a plug with 1).
RECURSIVE sampleEntries(_, _)
sampleEntries(decoder, k) ==
    IF k = 0 THEN <<>>
    ELSE sampleEntries(decoder, k - 1) \o
         (CASE decoder = "parseDeviceStatusResponse" ->
                 IF k % 2 = 1 THEN <<40, 207, 0, 0, 16, 6, 3, 1, 128, 255>>
                 ELSE <<180, 135, 0, 0, 0, 7, 1, 1>>
            [] decoder \in {"parseDeviceDiscoveryResponse",
                            "parseDbListDeviceFullResponse"} ->
                 <<40, 206 + k, 0, 0, 16, 6, 0, 18, 75, 0, 50, 137, 187, k>>
            [] OTHER -> <<40, 206 + k>>)

ListDecoders ==
    [parseDeviceStatusResponse |-> CMD.DEVICE_STATUS,
     parseDeviceDiscoveryResponse |-> CMD.DEVICE_DISCOVERY,
     parseDbListDeviceResponse |-> CMD.DB_LIST_DEVICE,
     parseDbListDeviceFullResponse |-> CMD.DB_LIST_DEVICE_FULL,
     parseGroupListResponse |-> CMD.GROUP_LIST,
     parseGroupReadResponse |-> CMD.GROUP_READ]

\* The list responses that are decoded: `complete` whole entries followed by
\* the first `tail` bytes of one more, under a list length of listLen.
DecodeCalls ==
    {[op |-> "decode", stage |-> "args", decoder |-> d, complete |-> c,
      tail |-> t, listLen |-> l,
      packet |-> createPacket(
                    ListDecoders[d],
                    (IF d = "parseGroupReadResponse" THEN <<4, 1>> ELSE <<>>)
                       \o sampleEntries(d, c)
                       \o SubSeq(sampleEntries(d, c + 1),
                                 Len(sampleEntries(d, c)) + 1,
                                 Len(sampleEntries(d, c)) + t),
                    l, FALSE),
      result |-> failed("none")] :
        d \in DOMAIN ListDecoders, c \in 0..MaxEntries, t \in 0..MaxTail,
        l \in 0..(MaxEntries + 1)}

\* protocol.parseDeviceStatusResponse(response), parseGroupListResponse(...), ...
ParseResponse ==
    /\ call.op = "decode"
    /\ call.stage = "args"
    /\ call' = [call EXCEPT !.stage = "decoded",
                            !.result = parseResponse(call.decoder, call.packet)]

\* The public commands of the connection: the command of the request each
\* sends, and the decoder it hands the response to ("none": the response is
\* awaited and dropped).
PublicCommands ==
    [ping |-> [request |-> CMD.PING, parser |-> "parsePingResponse"],
     getFirmwareVersion |-> [request |-> CMD.FIRMWARE_VERSION,
                             parser |-> "parseFirmwareVersionResponse"],
     listDevices |-> [request |-> CMD.DB_LIST_DEVICE_FULL,
                      parser |-> "parseDbListDeviceFullResponse"],
     discoverDevices |-> [request |-> CMD.DEVICE_DISCOVERY,
                          parser |-> "parseDeviceDiscoveryResponse"],
     getDeviceStatus |-> [request |-> CMD.DEVICE_STATUS,
                          parser |-> "parseDeviceStatusResponse"],
     setDevicePower |-> [request |-> CMD.DEVICE_SWITCH,
                         parser |-> "parseDeviceSwitchResponse"],
     setLightBrightness |-> [request |-> CMD.LIGHT_DIM,
                             parser |-> "parseLightDimResponse"],
     setLightTemperature |-> [request |-> CMD.LIGHT_TEMPERATURE,
                              parser |-> "parseLightTemperatureResponse"],
     setFanSpeed |-> [request |-> CMD.FAN_CONTROL, parser |-> "none"],
     enablePairing |-> [request |-> CMD.JOIN_ENABLE,
                        parser |-> "parseJoinEnableResponse"],
     disablePairing |-> [request |-> CMD.JOIN_DISABLE, parser |-> "none"],
     listGroups |-> [request |-> CMD.GROUP_LIST, parser |-> "parseGroupListResponse"],
     readGroup |-> [request |-> CMD.GROUP_READ, parser |-> "parseGroupReadResponse"]]

\* The rest of a public command once sendCommand resolved with the response:
\* the promise resolves with what the decoder returns, and rejects with what
\* it throws.
publicCommand(name, response) ==
    IF PublicCommands[name].parser = "none" THEN returned(<<>>)
    ELSE parseResponse(PublicCommands[name].parser, response)

\* The public commands that are answered, each by a valid response frame of
\* any command.
CommandCalls ==
    {[op |-> "command", stage |-> "sent", name |-> n, cmdId |-> r,
      response |-> createPacket(r, <<>>, 0, FALSE), result |-> failed("none")] :
        n \in DOMAIN PublicCommands, r \in {CMD[k] : k \in DOMAIN CMD}}

\* ping(), getFirmwareVersion(), ..., readGroup(): the response arrived.
CommandSettles ==
    /\ call.op = "command"
    /\ call.stage = "sent"
    /\ call' = [call EXCEPT !.stage = "settled",
                            !.result = publicCommand(call.name, call.response)]

\* The messages that are encrypted under a key: frames of 11, 12, 16, 17 and
\* 32 bytes, a frame with a wrong start mark, frames whose length field
\* names more or fewer bytes than there are, and two messages that are no
\* frame.
CipherCalls ==
    LET frame(n, r) == createPacket(CMD.PING, [i \in 1..n |-> i], 0, r)
    IN  {[op |-> "cipher", stage |-> "args", message |-> m, key |-> k, lost |-> l,
          random |-> <<>>, ciphertext |-> <<>>, received |-> <<>>,
          decryptKey |-> k, result |-> failed("none")] :
            m \in {frame(n, r) : n \in {0, 1, 5, 6, 21}, r \in BOOLEAN}
                     \cup {[frame(5, TRUE) EXCEPT ![1] = 0],
                           [frame(5, TRUE) EXCEPT ![6] = 200],
                           [frame(5, TRUE) EXCEPT ![6] = 0],
                           <<>>, <<254, 0, 1>>},
            k \in {3, 77},
            l \in 0..MaxLost}

\* crypto.encrypt(message, key), with the random bytes of the padding.
Encrypt ==
    /\ call.op = "cipher"
    /\ call.stage = "args"
    /\ \E random \in {[i \in 1..(BLOCK_SIZE - 1) |-> v] : v \in {0, 254, 255}} :
          call' = [call EXCEPT
                     !.stage = "encrypted",
                     !.random = random,
                     !.ciphertext = encryptBytes(call.message, call.key, random)]

\* crypto.decrypt(received, key) of the ciphertext, or of what arrived of it,
\* under the same key or another.
Decrypt ==
    /\ call.op = "cipher"
    /\ call.stage = "encrypted"
    /\ call.lost <= Len(call.ciphertext)
    /\ \E k \in {3, 77} :
          LET received == SubSeq(call.ciphertext, 1,
                                 Len(call.ciphertext) - call.lost)
          IN  call' = [call EXCEPT !.stage = "decrypted",
                                   !.received = received,
                                   !.decryptKey = k,
                                   !.result = decryptBytes(received, k)]

\* The strings given to parseMacAddress: the twelve digits of an address with
\* one character replaced (or none), the last digit dropped or one digit
\* more (or neither), written without separators, with ':' or with '-'
\* between the pairs.
MacCalls ==
    LET digits == <<"0", "0", "1", "2", "4", "B", "3", "2", "8", "9", "b", "f">>
        sized(len) == [i \in 1..len |-> IF i <= 12 THEN digits[i] ELSE "7"]
        separated(chars, sep) ==
            IF sep = "" THEN chars
            ELSE [i \in 1..(Len(chars) + (Len(chars) - 1) \div 2) |->
                     IF i % 3 = 0 THEN sep ELSE chars[i - i \div 3]]
    IN  {[op |-> "mac", stage |-> "args",
          macString |-> separated([i \in 1..len |->
                                      IF i = at THEN ch ELSE sized(len)[i]], sep),
          result |-> failed("none")] :
            len \in 11..13, at \in 0..12, ch \in {"a", "E", "G", "g", " ", "x"},
            sep \in {"", ":", "-"}}

\* crypto.parseMacAddress(macString)
ParseMacAddress ==
    /\ call.op = "mac"
    /\ call.stage = "args"
    /\ call' = [call EXCEPT !.stage = "parsed",
                            !.result = parseMacAddress(call.macString)]

\* The status responses that are decoded: up to MaxEntries entries, each of
\* a device of some type with some number of state bytes, laid out as the hub
\* lays them out (address, type, stateLen, state).
StatusCalls ==
    LET devices ==
            {[kind |-> "light", typeId |-> <<0, 4102>>, state |-> <<1, 128, 255>>],
             [kind |-> "light", typeId |-> <<16384, 1>>, state |-> <<0, 7, 9, 33>>],
             [kind |-> "light", typeId |-> <<0, 1>>, state |-> <<1, 128>>],
             [kind |-> "fan", typeId |-> <<0, 5>>, state |-> <<0, 200>>],
             [kind |-> "fan", typeId |-> <<16384, 3>>, state |-> <<1>>],
             [kind |-> "plug", typeId |-> <<0, 7>>, state |-> <<1>>],
             [kind |-> "plug", typeId |-> <<16384, 4>>, state |-> <<>>],
             [kind |-> "sensor", typeId |-> <<0, 13>>, state |-> <<1, 2>>],
             [kind |-> "remote", typeId |-> <<32768, 2>>, state |-> <<5>>],
             [kind |-> "unknown", typeId |-> <<0, 99>>, state |-> <<1, 2, 3>>]}
        RECURSIVE bytes(_)
        bytes(entries) ==
            IF entries = <<>> THEN <<>>
            ELSE writeUInt16BE(10446 + Len(entries)) \o writeUInt16BE(Head(entries).typeId[1])
                    \o writeUInt16BE(Head(entries).typeId[2])
                    \o <<Len(Head(entries).state)>> \o Head(entries).state
                    \o bytes(Tail(entries))
    IN  {[op |-> "status", stage |-> "args", entries |-> e,
          packet |-> createPacket(CMD.DEVICE_STATUS, bytes(e), Len(e), FALSE),
          result |-> failed("none")] :
            e \in UNION {[1..n -> devices] : n \in 0..MaxEntries}}

\* protocol.parseDeviceStatusResponse(packet)
ParseStatus ==
    /\ call.op = "status"
    /\ call.stage = "args"
    /\ call' = [call EXCEPT !.stage = "decoded",
                            !.result = parseDeviceStatusResponse(call.packet)]

\* The identifiers a key is derived from, in pairs: an identifier of 5, 6 or
\* 7 bytes, and the same with up to two of its bytes replaced.
KeyCalls ==
    {[op |-> "key", stage |-> "args",
      macAddress |-> [i \in 1..len |-> base[((i - 1) % 6) + 1]],
      other |-> [i \in 1..len |-> IF i - 1 \in changed THEN 255 - base[((i - 1) % 6) + 1]
                                  ELSE base[((i - 1) % 6) + 1]],
      result |-> failed("none"), otherResult |-> failed("none")] :
        len \in 5..7,
        base \in {<<0, 18, 75, 50, 137, 187>>, <<255, 0, 1, 128, 7, 64>>},
        changed \in {c \in SUBSET (0..5) : Cardinality(c) <= 2}}

\* crypto.generateKey(macAddress), once for each identifier of the pair.
GenerateKey ==
    /\ call.op = "key"
    /\ call.stage = "args"
    /\ call' = [call EXCEPT !.stage = "derived",
                            !.result = generateKeyBytes(call.macAddress),
                            !.otherResult = generateKeyBytes(call.other)]

connVars == <<socket, encryptionKey, connected, reconnecting, pollingTimer, pingTimer,
              reconnectTimer, pendingCommand, responseBuffer, socks, loop, cmdTimers,
              outstanding, pollArmed, pingArmed, user, disconnectCalled, emitted,
              written, settled, uncaught>>

InitCalls ==
    /\ Constructed
    /\ grp = grpIdle([g \in GroupIds |-> {}])
    /\ call \in FrameCalls \cup BuilderCalls \cup DecodeCalls \cup CommandCalls
                \cup CipherCalls \cup MacCalls
                \cup StatusCalls \cup KeyCalls

NextCalls ==
    /\ \/ CreatePacket
       \/ SetByte
       \/ FlipBit
       \/ Truncate
       \/ ParsePacket
       \/ BuildRequest
       \/ ParseResponse
       \/ CommandSettles
       \/ Encrypt
       \/ Decrypt
       \/ ParseMacAddress
       \/ ParseStatus
       \/ GenerateKey
    /\ UNCHANGED <<connVars, grp>>

SpecCalls == InitCalls /\ [][NextCalls]_vars

\* C22: for 16-bit cmdId and listLen, any data and both kinds of frame,
\* parsePacket(createPacket(cmdId, data, listLen, isRequest)) returns the same
\* cmdId, listLen, data and isRequest, and dataLen is the length of data.
C22_RoundTrip ==
    (call.op = "frame" /\ call.stage = "parsed" /\ call.edits = <<>>) =>
        call.result = [error |-> "none", cmdId |-> call.cmdId,
                       dataLen |-> Len(call.data), listLen |-> call.listLen,
                       data |-> call.data, isRequest |-> call.isRequest]

C22_Witness ==
    /\ call.op = "frame"
    /\ call.stage = "parsed"
    /\ call.edits = <<>>
    /\ call.result.error = "none"
    /\ call.cmdId = 65535
    /\ call.listLen = 258
    /\ Len(call.data) = 2
    /\ ~call.isRequest

\* The first check that fails on the bytes p, in the order too short, start
\* mark, incomplete, end mark, checksum.
FirstFailure(p) ==
    LET dataLen == p[5] * 256 + p[6]
    IN  IF Len(p) < 11 THEN "Packet too short"
        ELSE IF ~(p[1] = 254 /\ p[2] \in {0, 1}) THEN "Invalid start mark"
        ELSE IF Len(p) < 11 + dataLen THEN "Packet data incomplete"
        ELSE IF ~(p[10 + dataLen] = 0 /\ p[11 + dataLen] = 255)
        THEN "Invalid end mark"
        ELSE IF p[9 + dataLen] # xorAll(SubSeq(p, 3, 8 + dataLen), 0)
        THEN "Checksum mismatch"
        ELSE "none"

\* C23: parsePacket reports the first of its five checks that fails, in the
\* order too short (fewer than 11 bytes), bad start mark, incomplete (shorter
\* than 11 + dataLen), bad end mark (at offset 9 + dataLen), checksum
\* mismatch, and returns a packet only when all five pass.
C23_ChecksInOrder ==
    (call.op = "frame" /\ call.stage = "parsed")
        => call.result.error = FirstFailure(call.packet)

\* Both the checksum byte and the end mark are wrong: the end mark is reported.
C23_Witness ==
    /\ call.op = "frame"
    /\ call.stage = "parsed"
    /\ Len(call.edits) = 2
    /\ call.edits[1] = [kind |-> "set", off |-> 8 + Len(call.data), bit |-> 0]
    /\ call.edits[2] = [kind |-> "set", off |-> 10 + Len(call.data), bit |-> 0]
    /\ call.result.error = "Invalid end mark"

\* C24: a frame of createPacket whose checksum byte is changed to another
\* value, or in which one bit of a data byte is flipped, is refused by
\* parsePacket with a checksum mismatch; computeChecksum is the XOR of the
\* bytes (0 for no bytes, 0 for any bytes followed by themselves, 0x70 for
\* 12 34 56).
C24_ChecksumDetects ==
    /\ (call.op = "frame" /\ call.stage = "parsed" /\ Len(call.edits) = 1)
          => LET e == call.edits[1]
                 n == Len(call.data)
             IN  (\/ e.kind \in {"set", "flip"} /\ e.off = 8 + n
                  \/ e.kind = "flip" /\ e.off >= 8 /\ e.off < 8 + n)
                    => call.result.error = "Checksum mismatch"
    /\ computeChecksum(<<>>) = 0
    /\ computeChecksum(<<18, 52, 86>>) = 112
    /\ call.op = "frame" => computeChecksum(call.data \o call.data) = 0

C24_Witness ==
    /\ call.op = "frame"
    /\ call.stage = "parsed"
    /\ Len(call.data) = 2
    /\ call.edits = <<[kind |-> "flip", off |-> 9, bit |-> 7]>>
    /\ call.result.error = "Checksum mismatch"

\* C25: createPacket returns 11 + len(data) bytes: the start mark FE00
\* (request) or FE01 (response), then cmdId, dataLen = len(data) and listLen
\* as big-endian 16-bit numbers, the data, the XOR of the bytes from offset 2
\* up to the end of the data, and the end mark 00FF.
C25_Layout ==
    (call.op = "frame" /\ call.stage = "built" /\ call.edits = <<>>) =>
        LET p == call.packet
            n == Len(call.data)
        IN  /\ Len(p) = 11 + n
            /\ p[1] = 254
            /\ p[2] = (IF call.isRequest THEN 0 ELSE 1)
            /\ p[3] * 256 + p[4] = call.cmdId
            /\ p[5] * 256 + p[6] = n
            /\ p[7] * 256 + p[8] = call.listLen
            /\ \A i \in 1..n : p[8 + i] = call.data[i]
            /\ p[9 + n] = xorAll(SubSeq(p, 3, 8 + n), 0)
            /\ p[10 + n] = 0
            /\ p[11 + n] = 255

C25_Witness ==
    /\ call.op = "frame"
    /\ call.stage = "built"
    /\ call.edits = <<>>
    /\ call.packet = <<254, 1, 1, 1, 0, 2, 1, 2, 255, 0, 254, 0, 255>>

\* C27: the frame of a builder taking one value and n device addresses has
\* the builder's cmdId, dataLen = 1 + 2n, listLen = n, the value in payload
\* byte 0 (1 for on and 0 for off in the switch request) and the i-th
\* address big-endian at payload offset 1 + 2i.
C27_ValueAndList ==
    (call.op = "build" /\ call.stage = "built") =>
        LET p == call.packet
            n == Len(call.deviceIds)
        IN  /\ p[3] * 256 + p[4] =
                  (CASE call.builder = "switch" -> 0
                     [] call.builder = "dim" -> 4
                     [] call.builder = "temperature" -> 5
                     [] call.builder = "fan" -> 6)
            /\ p[5] * 256 + p[6] = 1 + 2 * n
            /\ p[7] * 256 + p[8] = n
            /\ p[9] = (IF call.builder = "switch"
                       THEN (IF call.on THEN 1 ELSE 0)
                       ELSE call.value)
            /\ \A i \in 0..(n - 1) :
                  p[8 + 1 + 2 * i + 1] * 256 + p[8 + 1 + 2 * i + 2]
                     = call.deviceIds[i + 1]
            /\ parsePacket(p).error = "none"
            /\ parsePacket(p).isRequest

\* createDeviceSwitchRequest(true, [0x28CF]): payload 01 28 CF.
C27_Witness ==
    /\ call.op = "build"
    /\ call.stage = "built"
    /\ call.builder = "switch"
    /\ call.on
    /\ call.deviceIds = <<10447>>
    /\ SubSeq(call.packet, 3, 11) = <<0, 0, 0, 3, 0, 1, 1, 40, 207>>

\* C26: every list decoder (device status, discovery, db-list, db-list-full,
\* group list, group read), given a valid frame whose listLen is larger than
\* the number of whole entries in its data, does not fail and returns the
\* entries that are there.
C26_ShortListTolerated ==
    (call.op = "decode" /\ call.stage = "decoded" /\ call.listLen > call.complete)
        => /\ call.result.error = "none"
           /\ Len(call.result.value) = call.complete

\* A status response announcing two entries and holding one whole entry.
C26_Witness ==
    /\ call.op = "decode"
    /\ call.stage = "decoded"
    /\ call.decoder = "parseDeviceStatusResponse"
    /\ call.listLen = 2
    /\ call.complete = 1
    /\ call.tail = 0
    /\ call.result.error = "none"
    /\ Len(call.result.value) = 1

\* C21: every public command of the connection whose response is a valid
\* frame of another command than the one requested is rejected with an
\* unexpected-command error instead of resolving.
C21_UnexpectedCommand ==
    (/\ call.op = "command"
     /\ call.stage = "settled"
     /\ parsePacket(call.response).error = "none"
     /\ call.cmdId # PublicCommands[call.name].request)
        => call.result.error = "Unexpected command ID"

\* ping() answered by a firmware-version response.
C21_Witness ==
    /\ call.op = "command"
    /\ call.stage = "settled"
    /\ call.name = "ping"
    /\ parsePacket(call.response).cmdId = CMD.FIRMWARE_VERSION
    /\ call.result.error = "Unexpected command ID"

\* C28: for every key and every message that is a well-formed frame (valid
\* start mark, length 11 + dataLen), decrypt(encrypt(m, k), k) is m, whatever
\* the random padding and whether or not the length of m is a multiple of 16.
C28_EncryptDecrypt ==
    (/\ call.op = "cipher"
     /\ call.stage = "decrypted"
     /\ call.lost = 0
     /\ call.decryptKey = call.key
     /\ Len(call.message) >= 11
     /\ call.message[1] = 254
     /\ call.message[2] \in {0, 1}
     /\ Len(call.message) = 11 + call.message[5] * 256 + call.message[6])
        => call.result = returned(call.message)

\* A frame of 17 bytes, padded with 15 bytes FE.
C28_Witness ==
    /\ call.op = "cipher"
    /\ call.stage = "decrypted"
    /\ call.lost = 0
    /\ call.decryptKey = call.key
    /\ Len(call.message) = 17
    /\ Len(call.ciphertext) = 32
    /\ call.random[1] = 254
    /\ call.result = returned(call.message)

\* C29: decrypt returns the first 11 + dataLen bytes of the decrypted buffer
\* when that buffer starts with FE00 or FE01 and 11 + dataLen (dataLen read
\* at offset 4) does not exceed its length; in every other case it returns
\* the whole decrypted buffer, and it does not fail.
C29_TruncationRule ==
    (call.op = "cipher" /\ call.stage = "decrypted")
        => /\ call.result.error = "none"
           /\ LET d == cbcDecrypt(call.received, call.decryptKey, IV)
                  framed == /\ Len(d) >= 6
                            /\ d[1] = 254
                            /\ d[2] \in {0, 1}
                            /\ 11 + d[5] * 256 + d[6] <= Len(d)
              IN  call.result.value =
                     (IF framed THEN SubSeq(d, 1, 11 + d[5] * 256 + d[6]) ELSE d)

\* A buffer whose length field names more bytes than there are comes back whole.
C29_Witness ==
    /\ call.op = "cipher"
    /\ call.stage = "decrypted"
    /\ call.lost = 0
    /\ call.decryptKey = call.key
    /\ Len(call.message) = 16
    /\ call.message[1] = 254
    /\ call.message[6] = 200
    /\ call.result = returned(call.message)

\* C30: for a message of n bytes, encrypt returns the smallest multiple of 16
\* that is at least n bytes: (16 - n mod 16) mod 16 padding bytes are
\* appended, none when n is a multiple of 16.
C30_CiphertextLength ==
    (call.op = "cipher" /\ call.stage = "encrypted")
        => LET n == Len(call.message)
               padding == (16 - (n % 16)) % 16
           IN  /\ Len(call.ciphertext) = n + padding
               /\ Len(call.ciphertext) % 16 = 0
               /\ Len(call.ciphertext) >= n
               /\ Len(call.ciphertext) < n + 16
               /\ cbcDecrypt(call.ciphertext, call.key, IV)
                     = call.message \o SubSeq(call.random, 1, padding)

\* A message of 16 bytes gives 16 bytes.
C30_Witness ==
    /\ call.op = "cipher"
    /\ call.stage = "encrypted"
    /\ Len(call.message) = 16
    /\ Len(call.ciphertext) = 16

\* C31: parseMacAddress removes the ':' and '-' separators and succeeds,
\* returning 6 bytes, only when exactly 12 hexadecimal characters remain; for
\* every other input, 12 remaining characters that are not all hexadecimal
\* digits included, it fails with the format error.
C31_TwelveHexOrError ==
    (call.op = "mac" /\ call.stage = "parsed") =>
        LET hex == SelectSeq(call.macString, LAMBDA ch : ch \notin {":", "-"})
            hexDigits == {"0", "1", "2", "3", "4", "5", "6", "7", "8", "9",
                          "a", "b", "c", "d", "e", "f", "A", "B", "C", "D", "E", "F"}
        IN  IF Len(hex) = 12 /\ \A i \in 1..12 : hex[i] \in hexDigits
            THEN call.result.error = "none" /\ Len(call.result.value) = 6
            ELSE call.result = failed("Invalid MAC address format")

\* Twelve characters remain, the fifth is no hexadecimal digit, and
\* parseMacAddress has returned the two bytes before it.
C31_Witness ==
    /\ call.op = "mac"
    /\ call.stage = "parsed"
    /\ call.macString = <<"0", "0", ":", "1", "2", ":", "G", "B", ":", "3", "2", ":",
                          "8", "9", ":", "b", "f">>
    /\ call.result = returned(<<0, 18>>)

\* C32: whenever the connection is Ready, after connect() as after every
\* successful reconnect, a keep-alive ping timer is armed, whether or not
\* status polling has been started.
C32_ReadyHasKeepAlive == Ready => pingTimer /\ pingArmed >= 1

\* connect() has resolved, the connection is Ready on an open socket, polling
\* was never started, and no keep-alive timer exists.
C32_Witness ==
    /\ Ready
    /\ user = "resolved"
    /\ socket # NoSocket
    /\ socks[socket].state = "open"
    /\ ~pollingTimer
    /\ ~pingTimer
    /\ pingArmed = 0

\* C33: parseDeviceStatusResponse decodes each entry as shortAddress (2 bytes),
\* typeId (4), stateLen (1) and stateLen state bytes and advances by
\* 7 + stateLen, so that entries of different state lengths in one payload
\* are each decoded at their own offset; the state is on/brightness/
\* temperature for a light, on/speed for a fan, on for a plug, and the state
\* bytes as they are for every other category and for an entry with fewer
\* state bytes than its category needs.
C33_StatusEntries ==
    (call.op = "status" /\ call.stage = "decoded") =>
        /\ call.result.error = "none"
        /\ Len(call.result.value) = Len(call.entries)
        /\ \A k \in 1..Len(call.entries) :
              LET e == call.entries[k]
                  d == call.result.value[k]
                  n == Len(e.state)
              IN  /\ d.shortAddress = 10447 + Len(call.entries) - k
                  /\ d.typeId = e.typeId
                  /\ d.state =
                        IF e.kind = "light" /\ n >= 3
                        THEN [on |-> e.state[1] # 0, brightness |-> e.state[2],
                              temperature |-> e.state[3]]
                        ELSE IF e.kind = "fan" /\ n >= 2
                        THEN [on |-> e.state[1] # 0, speed |-> e.state[2]]
                        ELSE IF e.kind = "plug" /\ n >= 1
                        THEN [on |-> e.state[1] # 0]
                        ELSE [rawState |-> e.state]

\* A payload of a fan with two state bytes followed by a light with four has
\* been decoded: the light's entry starts at offset 9.
C33_Witness ==
    /\ call.op = "status"
    /\ call.stage = "decoded"
    /\ Len(call.entries) = 2
    /\ call.entries[1].state = <<0, 200>>
    /\ call.entries[2].state = <<0, 7, 9, 33>>
    /\ call.result.error = "none"
    /\ call.result.value[1].state = [on |-> FALSE, speed |-> 200]
    /\ call.result.value[2].state = [on |-> FALSE, brightness |-> 7, temperature |-> 9]

\* C34: a pending command implies an empty receive buffer: sendCommand
\* empties the buffer when it installs the pending command, and the first
\* data event that arrives while a command is pending settles that command
\* (it resolves with the decrypted bytes or rejects with the decipher's
\* error), cancels its timer and clears both the slot and the buffer.  (When
\* the data is the handshake response of a reconnect, the same task goes on
\* to startPolling(), whose poll is then the only command.)
C34_PendingMeansEmptyBuffer ==
    /\ [](pendingCommand # NoCmd => responseBuffer = <<>>)
    /\ [][(SendTask /\ pendingCommand = NoCmd /\ pendingCommand' # NoCmd)
             => responseBuffer' = <<>>]_vars
    /\ [][(pendingCommand # NoCmd
           /\ \E s \in Sockets : HubAnswersCommand(s) \/ HubAnswersHandshake(s))
             => /\ responseBuffer' = <<>>
                /\ pendingCommand \in outstanding
                      => \E i \in 1..Len(settled') :
                            /\ settled'[i].what = "cmd"
                            /\ settled'[i].who = pendingCommand.kind
                            /\ settled'[i].how # "CommandTimeout"
                /\ IF \E i \in 1..Len(written') : written'[i].kind = "cmd"
                   THEN /\ pendingCommand'.kind = "poll"
                        /\ outstanding' = {pendingCommand'}
                        /\ cmdTimers' = {pendingCommand'.id}
                   ELSE /\ pendingCommand' = NoCmd
                        /\ pendingCommand.id \notin cmdTimers'
                        /\ pendingCommand \notin outstanding']_vars

\* The first data that arrived for a pending command has just settled it:
\* the command resolved, its timer is gone, the slot and the buffer are empty.
C34_Witness ==
    /\ settled = <<[what |-> "cmd", who |-> "user", how |-> "resolved"]>>
    /\ pendingCommand = NoCmd
    /\ responseBuffer = <<>>
    /\ cmdTimers = {}
    /\ outstanding = {}

\* C35: every accepted command is settled exactly once, by a response, by
\* the decipher's error or by its timeout: while it is not settled it is the
\* pending command and its timeout timer is armed, and the only armed timeout
\* timer is the pending command's.  A timeout timer therefore never fires for
\* a command that incoming data has settled, and never clears the slot or
\* rejects the promise of a later command: the timer that fires is the
\* pending command's own, and the step settles that command and no other.
\* As its timer fires when due, every accepted command is settled in the end
\* (unless an uncaught exception has ended the process).
C35_SettledOnce ==
    /\ [](/\ outstanding \subseteq {pendingCommand} \ {NoCmd}
          /\ cmdTimers \subseteq {pendingCommand.id} \ {NoCmd.id}
          /\ \A x \in outstanding : x.id \in cmdTimers)
    /\ [][\A x \in outstanding \ outstanding' :
             /\ Cardinality({i \in 1..Len(settled') :
                                /\ settled'[i].what = "cmd"
                                /\ settled'[i].who = x.kind
                                /\ settled'[i].how \in
                                      {"resolved", "resolvedStale", "DecodeError",
                                       "UnexpectedCommand", "DecryptError",
                                       "CommandTimeout"}}) = 1
             /\ x.id \notin cmdTimers' \/ (\E y \in outstanding' : y.id = x.id)]_vars
    /\ [][\A id \in CmdIds : CommandTimerFires(id)
             => /\ pendingCommand.id = id
                /\ pendingCommand \in outstanding
                /\ settled' = <<[what |-> "cmd", who |-> pendingCommand.kind,
                                 how |-> "CommandTimeout"]>>
                /\ pendingCommand' = NoCmd
                /\ outstanding' = {}
                /\ cmdTimers' = {}]_vars
    /\ \A id \in CmdIds :
          (\E x \in outstanding : x.id = id)
             ~> ((\A x \in outstanding : x.id # id) \/ uncaught)

\* The timeout timer of a keep-alive ping has just fired on an established
\* connection: that ping is the only command rejected, and the slot is free.
C35_Witness ==
    /\ settled = <<[what |-> "cmd", who |-> "ping", how |-> "CommandTimeout"]>>
    /\ pendingCommand = NoCmd
    /\ cmdTimers = {}
    /\ \E s \in Sockets : socks[s].state = "open" /\ socks[s].keyed
    /\ pingArmed > 0

\* C36: at most one polling timer and at most one keep-alive timer are armed
\* in every state, whatever the sequence of startPolling, stopPolling,
\* disconnect, socket closes and successful reconnects (each of which calls
\* startPolling again); startPolling while polling is running, called by the
\* platform or after a reconnect, creates no timer and issues no poll.
C36_OneTimerEach ==
    /\ [](/\ pollArmed = (IF pollingTimer THEN 1 ELSE 0)
          /\ pingArmed = (IF pingTimer THEN 1 ELSE 0))
    /\ [][(UserStartPolling /\ pollingTimer)
             => /\ UNCHANGED <<pollArmed, pingArmed, pollingTimer, pingTimer,
                               pendingCommand, outstanding, cmdTimers>>
                /\ written' = <<>>
                /\ settled' = <<>>]_vars
    /\ [][((\E s \in Sockets : HubAnswersHandshake(s)) /\ pollingTimer)
             => /\ UNCHANGED <<pollArmed, pingArmed, pollingTimer, pingTimer>>
                /\ \A i \in 1..Len(written') : written'[i].kind # "cmd"
                /\ outstanding' \subseteq outstanding]_vars

\* A reconnect has just succeeded while polling was running: startPolling
\* returned at once, one timer of each kind is armed and nothing was written.
C36_Witness ==
    /\ settled = <<[what |-> "connect", who |-> "reconnect", how |-> "resolved"]>>
    /\ emitted = <<"connected">>
    /\ pollingTimer
    /\ pollArmed = 1
    /\ pingArmed = 1
    /\ written = <<>>

\* C37: data received on a socket is delivered only to a command that was
\* written on that socket: the bytes that arrive on a new socket after a
\* reconnect, the plaintext handshake response included, never settle a
\* command that was sent on a previous socket.
C37_SameSocketOnly ==
    [][\A s \in Sockets :
          (HubAnswersCommand(s) \/ HubAnswersHandshake(s))
             => \A x \in outstanding \ outstanding' : x.sock = s]_vars

\* The handshake response of the reconnect's socket has just rejected, with
\* the decipher's error, the command that was pending on the closed socket.
C37_Witness ==
    /\ Len(settled) = 2
    /\ settled[1] = [what |-> "cmd", who |-> "user", how |-> "DecryptError"]
    /\ settled[2] = [what |-> "connect", who |-> "reconnect", how |-> "resolved"]
    /\ connected
    /\ socket # NoSocket

\* C38: the 'connected' and 'disconnected' notifications alternate, starting
\* with 'connected': a 'disconnected' is emitted only at the close of a
\* socket whose connection had emitted 'connected' (and a socket closes
\* once), and a 'connected' is emitted only when every connection that had
\* emitted 'connected' before has emitted its 'disconnected'.
C38_NotificationsAlternate ==
    /\ [][\A s \in Sockets :
             ((HubCloses(s) \/ CloseEvent(s))
              /\ \E i \in 1..Len(emitted') : emitted'[i] = "disconnected")
                => socks[s].attempt = "resolved"]_vars
    /\ [][(\E i \in 1..Len(emitted') : emitted'[i] = "connected")
             => \A s \in Sockets :
                   socks[s].attempt = "resolved"
                      => /\ socks[s].state = "closed"
                         /\ \A i \in 1..Len(loop) : loop[i] # [t |-> "close", s |-> s]]_vars

\* The socket of the first connect() has closed before the handshake was
\* answered: 'disconnected' is emitted, and no 'connected' ever was.
C38_Witness ==
    /\ emitted = <<"disconnected">>
    /\ user = "connecting"
    /\ ~connected
    /\ encryptionKey = NoKey
    /\ \A s \in Sockets : socks[s].attempt # "resolved"

\* C39: the handshake timer is harmless once its handshake has settled: when
\* it fires after the attempt resolved or was rejected, it changes nothing of
\* the connection, settles nothing, emits nothing and raises no error,
\* whatever happened in between, a socket close and disconnect() included.
C39_LateHandshakeTimer ==
    [][(HandshakeTimerFires /\ socks[Head(loop).s].attempt \in {"resolved", "rejected"})
          => /\ ~uncaught'
             /\ UNCHANGED <<socket, encryptionKey, connected, reconnecting,
                            pollingTimer, pingTimer, reconnectTimer, pendingCommand,
                            responseBuffer, cmdTimers, outstanding, pollArmed,
                            pingArmed, user, disconnectCalled>>
             /\ loop' = Tail(loop)
             /\ \A s \in Sockets : socks'[s] = socks[s] \/ socks'[s] = SockInit
             /\ emitted' = <<>>
             /\ settled' = <<>>
             /\ written' = <<>>]_vars

\* disconnect() was called after the handshake had completed, and the
\* handshake timer has fired since: its callback dereferenced the null
\* socket, and the exception escaped.
C39_Witness ==
    /\ uncaught
    /\ disconnectCalled
    /\ socket = NoSocket
    /\ user = "resolved"
    /\ \A i \in 1..Len(loop) : loop[i].t # "hs"

\* C40: generateKey fails unless the identifier has exactly 6 bytes; the key
\* is the base key, with identifier bytes 0, 3, 4 and 5 written to its
\* positions 9, 7, 13 and 3, taken through the eight passes: it depends on
\* the identifier through those four bytes only, so that two 6-byte
\* identifiers that differ only in bytes 1 and 2 derive the same key, and the
\* same identifier always derives the same key.
C40_KeyFromFourBytes ==
    (call.op = "key" /\ call.stage = "derived") =>
        LET a == call.macAddress
            b == call.other
            RECURSIVE undo(_, _)
            undo(key, i) ==
                IF i = 0 THEN key
                ELSE undo(aesBlock(PRIVATE_KEY[(i - 1) * 16 + 1], key, TRUE), i - 1)
        IN  /\ Len(a) # 6 => call.result = failed("MAC address must be 6 bytes")
            /\ Len(a) = 6 =>
                  /\ call.result.error = "none"
                  /\ Len(call.result.value) = 16
                  /\ \A p \in 0..15 :
                        undo(call.result.value, 8)[p + 1] =
                           CASE p = 9 -> a[1]
                             [] p = 7 -> a[4]
                             [] p = 13 -> a[5]
                             [] p = 3 -> a[6]
                             [] OTHER -> BASE_KEY[p + 1]
            /\ (Len(a) = 6 /\ \A i \in {1, 4, 5, 6} : a[i] = b[i])
                  => call.otherResult = call.result
            /\ a = b => call.otherResult = call.result

\* Keys were derived from two 6-byte identifiers that differ in bytes 1 and 2
\* and in no other: the two keys are the same 16 bytes.
C40_Witness ==
    /\ call.op = "key"
    /\ call.stage = "derived"
    /\ call.macAddress = <<0, 18, 75, 50, 137, 187>>
    /\ call.other = <<0, 237, 180, 50, 137, 187>>
    /\ call.result.error = "none"
    /\ Len(call.result.value) = 16
    /\ call.otherResult = call.result

====
